---- MODULE Spec2Model ----
(***************************************************************************)
(* The citation verification and page-linking code of the MLB CBA          *)
(* assistant (lib/pdfIndex.js and its callers), as a state machine.        *)
(*                                                                         *)
(* A text is a sequence of characters and a character is a one-character   *)
(* string; the characters outside ASCII that the code names are the atoms  *)
(* LDQ, RDQ (curly double quotes), LSQ, RSQ (curly single quotes), EMDASH, *)
(* ENDASH and BULLET.  Offsets are the code's: 0-based, in characters.     *)
(***************************************************************************)
EXTENDS Integers, Sequences, FiniteSets, TLC

\* ------------------------------------------------------------ characters
UpperLetters == <<"A","B","C","D","E","F","G","H","I","J","K","L","M","N","O","P","Q","R","S","T","U","V","W","X","Y","Z">>
LowerLetters == <<"a","b","c","d","e","f","g","h","i","j","k","l","m","n","o","p","q","r","s","t","u","v","w","x","y","z">>
DigitChars   == <<"0","1","2","3","4","5","6","7","8","9">>

Range(s) == {s[i] : i \in 1..Len(s)}
UpperSet == Range(UpperLetters)
LowerSet == Range(LowerLetters)
DigitSet == Range(DigitChars)

\* String.prototype.toLowerCase, one character
LowerOf == [c \in UpperSet |-> LowerLetters[CHOOSE k \in 1..Len(UpperLetters) : UpperLetters[k] = c]]
UpperOf == [c \in LowerSet |-> UpperLetters[CHOOSE k \in 1..Len(LowerLetters) : LowerLetters[k] = c]]
LowerChar(c) == IF c \in UpperSet THEN LowerOf[c] ELSE c
UpperChar(c) == IF c \in LowerSet THEN UpperOf[c] ELSE c

\* the regular expression classes \s, \w and \d
IsWs(c)       == c \in {" ", "\n", "\t"}
IsWordChar(c) == c \in UpperSet \cup LowerSet \cup DigitSet \cup {"_"}
IsDigit(c)    == c \in DigitSet

Min(a, b) == IF a < b THEN a ELSE b
Max(a, b) == IF a > b THEN a ELSE b

\* ------------------------------------------------------- JavaScript strings
\* the array holding the elements of f, each computed once
Arr(f) == f \o <<>>

toLowerCase(s) == Arr([i \in 1..Len(s) |-> LowerChar(s[i])])
toUpperCase(s) == Arr([i \in 1..Len(s) |-> UpperChar(s[i])])

\* s.slice(a, b) for 0 <= a, b
Slice(s, a, b) == SubSeq(s, Min(a, Len(s)) + 1, Min(b, Len(s)))

\* whether needle occurs in s at 0-based offset i
MatchAt(s, i, needle) ==
  /\ i >= 0
  /\ i + Len(needle) <= Len(s)
  /\ \A k \in 1..Len(needle) : s[i + k] = needle[k]

\* the same, ignoring case (the i flag), for a lower-case needle
MatchAtCI(s, i, needle) ==
  /\ i >= 0
  /\ i + Len(needle) <= Len(s)
  /\ \A k \in 1..Len(needle) : LowerChar(s[i + k]) = needle[k]

\* the one element of a singleton: The({e(x) : x \in {v}}) is e with x bound to v
The(S) == CHOOSE v \in S : TRUE

SetMin(S) == CHOOSE x \in S : \A y \in S : x <= y
SetMax(S) == CHOOSE x \in S : \A y \in S : x >= y

\* s.indexOf(needle): the first offset, or -1
IndexOf(s, needle) ==
  LET hits == {i \in 0..(Len(s) - Len(needle)) : MatchAt(s, i, needle)}
  IN IF hits = {} THEN -1 ELSE SetMin(hits)

Includes(s, needle) == IndexOf(s, needle) >= 0

\* s.replace(/\s+/g, " ")
CollapseWs(s) ==
  LET marked == [i \in 1..Len(s) |->
                   <<IF IsWs(s[i]) THEN " " ELSE s[i],
                     i > 1 /\ IsWs(s[i]) /\ IsWs(s[i - 1])>>]
      kept == SelectSeq(marked, LAMBDA e : ~e[2])
  IN Arr([i \in 1..Len(kept) |-> kept[i][1]])

\* s.trim()
Trim(s) ==
  LET solid == {i \in 1..Len(s) : ~IsWs(s[i])}
  IN IF solid = {} THEN <<>> ELSE SubSeq(s, SetMin(solid), SetMax(solid))

\* s.split(/\s+/): the pieces between the whitespace runs, the empty piece before a
\* leading run and after a trailing run included
SplitWs(s) ==
  LET n == Len(s)
      idx == Arr([i \in 1..n |-> i])
      runStart == SelectSeq(idx, LAMBDA i : IsWs(s[i]) /\ (i = 1 \/ ~IsWs(s[i - 1])))
      runEnd   == SelectSeq(idx, LAMBDA i : IsWs(s[i]) /\ (i = n \/ ~IsWs(s[i + 1])))
      m == Len(runStart)
  IN Arr([k \in 1..(m + 1) |->
            SubSeq(s, IF k = 1 THEN 1 ELSE runEnd[k - 1] + 1,
                      IF k = m + 1 THEN n ELSE runStart[k] - 1)])

NonEmpty(w) == Len(w) > 0
\* s.split(/\s+/).filter(Boolean)
Words(s) == SelectSeq(SplitWs(s), NonEmpty)

\* words.join(" ")
RECURSIVE Join(_)
Join(ws) ==
  IF Len(ws) = 0 THEN <<>>
  ELSE IF Len(ws) = 1 THEN ws[1]
  ELSE ws[1] \o <<" ">> \o Join(Tail(ws))

\* words.join(" ").length
RECURSIVE SumLen(_)
SumLen(ws) == IF Len(ws) = 0 THEN 0 ELSE Len(ws[1]) + SumLen(Tail(ws))
JoinLength(ws) == IF Len(ws) = 0 THEN 0 ELSE SumLen(ws) + Len(ws) - 1

\* the decimal digits of a number, and back
RECURSIVE NumText(_)
NumText(n) == IF n < 10 THEN <<DigitChars[n + 1]>> ELSE NumText(n \div 10) \o <<DigitChars[(n % 10) + 1]>>
DigitVal(c) == (CHOOSE k \in 1..Len(DigitChars) : DigitChars[k] = c) - 1
RECURSIVE TextNum(_)
TextNum(ds) == IF Len(ds) = 0 THEN 0 ELSE 10 * TextNum(SubSeq(ds, 1, Len(ds) - 1)) + DigitVal(ds[Len(ds)])

\* ------------------------------------------------------------- text utils
STOP == {
  <<"t","h","e">>, <<"a","n","d">>, <<"f","o","r">>, <<"w","i","t","h">>, <<"t","h","a","t">>, <<"t","h","i","s">>, <<"f","r","o","m">>, <<"i","n","t","o">>, <<"s","u","c","h">>, <<"s","h","a","l","l">>,
  <<"h","a","v","e">>, <<"h","a","s">>, <<"a","r","e">>, <<"w","a","s">>, <<"w","e","r","e">>, <<"w","i","l","l">>, <<"m","a","y">>, <<"c","a","n">>, <<"n","o","t">>, <<"t","h","a","n">>,
  <<"t","h","e","n">>, <<"t","h","e","r","e">>, <<"t","h","e","i","r">>, <<"t","h","e","y">>, <<"t","h","e","m">>, <<"h","i","s">>, <<"h","e","r">>, <<"i","t","s">>, <<"a","l","s","o">>,
  <<"w","i","t","h","i","n">>, <<"a","b","o","u","t">>, <<"o","v","e","r">>, <<"b","e","t","w","e","e","n">>, <<"t","o">>, <<"o","f">>, <<"i","n">>, <<"o","n">>, <<"b","y">>, <<"a","s">>,
  <<"a">>, <<"a","n">>, <<"o","r">>, <<"a","t">>, <<"b","e">>, <<"i","s">>, <<"i","t">>, <<"i","f">>, <<"b","u","t">>, <<"s","o">>, <<"d","o">>,
  <<"d","o","e","s">>, <<"d","i","d">>, <<"a","f","t","e","r">>, <<"b","e","f","o","r","e">> }

NormChar(c) == IF c \in {"LDQ", "RDQ"} THEN "\"" ELSE IF c = "RSQ" THEN "'" ELSE LowerChar(c)
norm(s) == Trim(CollapseWs(Arr([i \in 1..Len(s) |-> NormChar(s[i])])))

IsStripKept(c) == c \in LowerSet \cup DigitSet \cup {"'", " ", "-"}
strip(s) == SelectSeq(norm(s), IsStripKept)

MinTokenLen == 3
IsToken(w) == Len(w) > 0 /\ w \notin STOP /\ Len(w) >= MinTokenLen
tokenize(s) == SelectSeq(SplitWs(strip(s)), IsToken)

bigrams(toks) == Arr([i \in 1..(Len(toks) - 1) |-> toks[i] \o <<" ">> \o toks[i + 1]])

TrimSpanCap == 45
trimWords(s, minW, maxW) ==
  LET words == SplitWs(s)
      mid == Len(words) \div 2
      span == Max(minW, Min(maxW, TrimSpanCap))
      start == Max(0, mid - (span \div 2))
  IN IF Len(words) <= maxW THEN Trim(s)
     ELSE Trim(Join(Slice(words, start, start + span)))


\* ------------------------------------------------------- Articles (ranges)
\* A page is [num, text]; a range is [start, end, title].  NullRange stands for
\* the code's null (no page is numbered 0: a missing number is read as 1).
NullRange == [start |-> 0, end |-> 0, title |-> <<>>]
IsNull(r) == r.start = 0

PageStartChars == 900
HeadingTailMax == 120

pageStartSlice(text) == norm(Slice(text, 0, PageStartChars))

IsRoman(c) == LowerChar(c) \in {"i", "v", "x", "l", "c"}
NotNewline(c) == c # "\n"

\* the last index of the run of characters satisfying P that starts at index j
\* (j - 1 when the run is empty)
RunEnd(s, j, P(_)) ==
  LET stops == {k \in j..Len(s) : ~P(s[k])}
  IN IF stops = {} THEN Len(s) ELSE SetMin(stops) - 1

\* /\barticle\s+[ivxlc]+\b[^\n]{0,120}/i tried at offset i: the index of the last
\* matched character, or 0
ArticleTitleEndAt(s, i) ==
  LET wsStart == i + Len(<<"a","r","t","i","c","l","e">>) + 1
      wsEnd == RunEnd(s, wsStart, IsWs)
      romanEnd == RunEnd(s, wsEnd + 1, IsRoman)
  IN IF /\ MatchAtCI(s, i, <<"a","r","t","i","c","l","e">>)
        /\ (i = 0 \/ ~IsWordChar(s[i]))
        /\ wsEnd >= wsStart
        /\ romanEnd > wsEnd
        /\ (romanEnd = Len(s) \/ ~IsWordChar(s[romanEnd + 1]))
     THEN Min(RunEnd(s, romanEnd + 1, NotNewline), romanEnd + HeadingTailMax)
     ELSE 0

\* the matched heading, or <<>> for null
detectArticleTitle(slice) ==
  LET at == {i \in 0..(Len(slice) - 1) : ArticleTitleEndAt(slice, i) > 0}
  IN IF at = {} THEN <<>>
     ELSE LET i == SetMin(at)
          IN CollapseWs(Trim(SubSeq(slice, i + 1, ArticleTitleEndAt(slice, i))))

\* the end of a match of /^article\s+/i, or 0
ArticlePrefixEnd(t) ==
  LET wsStart == Len(<<"a","r","t","i","c","l","e">>) + 1
      wsEnd == RunEnd(t, wsStart, IsWs)
  IN IF MatchAtCI(t, 0, <<"a","r","t","i","c","l","e">>) /\ wsEnd >= wsStart THEN wsEnd ELSE 0

\* head.replace(/^article\s+/i, m => m.toUpperCase())
UpperArticlePrefix(t) ==
  toUpperCase(SubSeq(t, 1, ArticlePrefixEnd(t))) \o SubSeq(t, ArticlePrefixEnd(t) + 1, Len(t))
\* title.replace(/^ARTICLE\s+/i, "")
DropArticlePrefix(t) == SubSeq(t, ArticlePrefixEnd(t) + 1, Len(t))

\* starts.sort((a, b) => a.page - b.page), a stable sort
SortByPage(starts) ==
  LET n == Len(starts)
      rank(i) == Cardinality({j \in 1..n : \/ starts[j].page < starts[i].page
                                           \/ (starts[j].page = starts[i].page /\ j < i)}) + 1
  IN Arr([r \in 1..n |-> starts[CHOOSE i \in 1..n : rank(i) = r]])

HasHeading(p) == detectArticleTitle(pageStartSlice(p.text)) # <<>>
StartOf(p) == [page |-> p.num, title |-> UpperArticlePrefix(detectArticleTitle(pageStartSlice(p.text)))]

\* the pages that open an article, sorted by page: [page, title]
Starts(pages) ==
  The({SortByPage(Arr([i \in 1..Len(found) |-> StartOf(found[i])])) :
         found \in {SelectSeq(pages, HasHeading)}})

\* ranges that end on the page of the next heading instead of the page before it
RangesToNextStart(starts, pages) ==
  Arr([i \in 1..Len(starts) |->
         [start |-> starts[i].page,
          end   |-> IF i + 1 <= Len(starts) THEN starts[i + 1].page
                    ELSE pages[Len(pages)].num,
          title |-> Trim(<<"A","r","t","i","c","l","e"," ">> \o DropArticlePrefix(starts[i].title))]])

rangesEndingOnNextStart(pages) == RangesToNextStart(Starts(pages), pages)

\* starts.map((s, idx) => ({ start, end, title }))
RangesFrom(starts, pages) ==
  Arr([i \in 1..Len(starts) |->
         [start |-> starts[i].page,
          end   |-> IF i + 1 <= Len(starts) THEN starts[i + 1].page - 1
                    ELSE pages[Len(pages)].num,
          title |-> Trim(<<"A","r","t","i","c","l","e"," ">> \o DropArticlePrefix(starts[i].title))]])

buildArticleRanges(pages) == RangesFrom(Starts(pages), pages)

\* ranges.find(pred) || null
FirstRange(ranges, P(_)) ==
  LET ok == {i \in 1..Len(ranges) : P(ranges[i])}
  IN IF ok = {} THEN NullRange ELSE ranges[SetMin(ok)]

rangeForPage(ranges, page) ==
  FirstRange(ranges, LAMBDA r : page >= r.start /\ page <= r.end)

\* label.match(/article\s+([ivxlc]+)/i)?.[1], or <<>>
LabelRoman(label) ==
  LET romanEndAt(i) ==
        LET wsStart == i + Len(<<"a","r","t","i","c","l","e">>) + 1
            wsEnd == RunEnd(label, wsStart, IsWs)
            romanEnd == RunEnd(label, wsEnd + 1, IsRoman)
        IN IF MatchAtCI(label, i, <<"a","r","t","i","c","l","e">>) /\ wsEnd >= wsStart /\ romanEnd > wsEnd
           THEN <<wsEnd + 1, romanEnd>> ELSE <<0, 0>>
      at == {i \in 0..(Len(label) - 1) : romanEndAt(i)[1] > 0}
  IN IF at = {} THEN <<>>
     ELSE SubSeq(label, romanEndAt(SetMin(at))[1], romanEndAt(SetMin(at))[2])

rangeForArticleLabel(ranges, label) ==
  LET roman == LabelRoman(label)
      prefix == <<"a","r","t","i","c","l","e"," ">> \o toLowerCase(roman)
  IN IF roman = <<>> THEN NullRange
     ELSE FirstRange(ranges, LAMBDA r : MatchAt(toLowerCase(r.title), 0, prefix))

\* ------------------------------------------------------ Quote -> page mapping
exactIndexOf(haystack, needle) == IndexOf(norm(haystack), norm(needle))

MinWindow == 6
WindowSlack == 6
MaxWindow == 40
FuzzyPercent == 55

\* Math.ceil(n * 0.55) in double arithmetic, for the n <= 100 tokens a quote of at
\* most 400 characters holds: the product rounds to the exact one except at
\* n = 100, where 100 * 0.55 is 55.00000000000001
FuzzyThreshold(n) ==
  IF n = 100 THEN 56 ELSE (n * FuzzyPercent + 99) \div 100

\* the best window of the token-window overlap: [idx, score]
BestWindow(Q, hTokens) ==
  LET window == Max(MinWindow, Min(Len(Q) + WindowSlack, MaxWindow))
      last == Max(0, Len(hTokens) - window)
      score == Arr([j \in 1..(last + 1) |->
                      LET set == Range(Slice(hTokens, j - 1, j - 1 + window))
                      IN Cardinality({k \in 1..Len(Q) : Q[k] \in set})])
  IN The({[idx |-> SetMin({i \in 0..last : sc[i + 1] = SetMax(Range(sc))}),
           score |-> SetMax(Range(sc))] : sc \in {score}})

fuzzyBestWindow(haystack, quote) == BestWindow(tokenize(quote), Words(strip(haystack)))

FuzzyIndexOf(Q, hTokens) ==
  IF Len(Q) = 0 THEN -1
  ELSE The({IF best.score < FuzzyThreshold(Len(Q)) THEN -1
            ELSE Max(0, JoinLength(Slice(hTokens, 0, best.idx))) : best \in {BestWindow(Q, hTokens)}})

fuzzyBestIndex(haystack, quote) == FuzzyIndexOf(tokenize(quote), Words(strip(haystack)))

\* a hit is [page, idx, text]; NullHit is the code's null
NullHit == [page |-> 0, idx |-> -1, text |-> <<>>]

\* the hit on the first page of ps where the index idxs[k] is not -1
FirstHitAt(ps, idxs) ==
  IF \A k \in 1..Len(ps) : idxs[k] < 0 THEN NullHit
  ELSE The({[page |-> ps[k].num, idx |-> idxs[k], text |-> ps[k].text] :
              k \in {SetMin({j \in 1..Len(ps) : idxs[j] >= 0})}})

FirstExactHit(ps, quote) ==
  FirstHitAt(ps, Arr([k \in 1..Len(ps) |-> exactIndexOf(ps[k].text, quote)]))

FirstFuzzyHit(ps, quote) ==
  FirstHitAt(ps, Arr([k \in 1..Len(ps) |-> fuzzyBestIndex(ps[k].text, quote)]))

\* pages.filter(p => p.num >= preferRange.start && p.num <= preferRange.end)
Candidates(ps, rng) ==
  IF IsNull(rng) THEN ps
  ELSE SelectSeq(ps, LAMBDA p : p.num >= rng.start /\ p.num <= rng.end)

\* the exact pass over ps, then the fuzzy pass over ps
PassesOver(ps, quote) ==
  The({IF pass1.page # 0 THEN pass1 ELSE FirstFuzzyHit(ps, quote) :
         pass1 \in {FirstExactHit(ps, quote)}})

\* the fuzzy pass over ps, then the exact pass over ps
FuzzyFirstOver(ps, quote) ==
  The({IF best.page # 0 THEN best ELSE FirstExactHit(ps, quote) :
         best \in {FirstFuzzyHit(ps, quote)}})

\* a locator that never looks outside preferRange
findQuoteInRangeOnly(quote, pages, preferRange) ==
  PassesOver(Candidates(pages, preferRange), quote)

\* a locator that tries the fuzzy pass over the candidates before the exact one
findQuoteFuzzyFirst(quote, pages, preferRange) ==
  The({IF best.page = 0 /\ ~IsNull(preferRange) THEN PassesOver(pages, quote) ELSE best :
         best \in {FuzzyFirstOver(Candidates(pages, preferRange), quote)}})

\* the candidates first; with a preferRange and nothing found there, all pages
findQuoteOnPages(quote, pages, preferRange) ==
  The({IF best.page = 0 /\ ~IsNull(preferRange) THEN PassesOver(pages, quote) ELSE best :
         best \in {PassesOver(Candidates(pages, preferRange), quote)}})

SnippetBefore == 260
SnippetAfter == 280
SnippetMinWords == 25
SnippetMaxWords == 45

snippetAround(text, idx) ==
  LET normalized == Trim(CollapseWs(text))
      start == Max(0, idx - SnippetBefore)
      end == Min(Len(normalized), idx + SnippetAfter)
  IN trimWords(Slice(normalized, start, end), SnippetMinWords, SnippetMaxWords)

\* -------------------------------------------------- LEGAL_EXCERPTS parser
QuoteMinLen == 12
QuoteMaxLen == 400
MaxItems == 4

\* /(?:^|\n)LEGAL_EXCERPTS:\s*\n/i: m.index + m[0].length, the offset at which
\* the block begins, or -1 when the header is missing
ExcerptsBlockStart(answer) ==
  LET key == <<"l","e","g","a","l","_","e","x","c","e","r","p","t","s",":">>
      endAt(i) ==
        LET wsStart == i + Len(key) + 1
            wsEnd == RunEnd(answer, wsStart, IsWs)
            nls == {k \in wsStart..wsEnd : answer[k] = "\n"}
        IN IF MatchAtCI(answer, i, key) /\ (i = 0 \/ answer[i] = "\n") /\ nls # {}
           THEN SetMax(nls) ELSE 0
      at == {i \in 0..(Len(answer) - 1) : endAt(i) > 0}
  IN IF at = {} THEN -1 ELSE endAt(SetMin(at))

\* \s*\n\s*QUOTE:\s*"([^"]{12,400})" tried at index q of block b:
\* [ok, from, to] with the quote at b[from..to] and the closing quote at to + 1
QuoteLineAt(b, q) ==
  LET wsEnd == RunEnd(b, q, IsWs)
      ws3End == RunEnd(b, wsEnd + Len(<<"q","u","o","t","e",":">>) + 1, IsWs)
      open == ws3End + 1
      closes == {k \in (open + 1)..Len(b) : b[k] = "\""}
      close == IF closes = {} THEN 0 ELSE SetMin(closes)
  IN IF /\ \E k \in q..wsEnd : b[k] = "\n"
        /\ MatchAtCI(b, wsEnd, <<"q","u","o","t","e",":">>)
        /\ open <= Len(b) /\ b[open] = "\""
        /\ close > 0
        /\ close - open - 1 >= QuoteMinLen
        /\ close - open - 1 <= QuoteMaxLen
     THEN [ok |-> TRUE, from |-> open + 1, to |-> close - 1]
     ELSE [ok |-> FALSE, from |-> 0, to |-> 0]

\* /\d+\)\s*ARTICLE:\s*([^\n]+?)\s*\n\s*QUOTE:\s*"([^"]{12,400})"/gi tried at offset p
\* of block b: [ok, article, quote, end], end the offset after the match
ItemAt(b, p) ==
  LET dEnd == RunEnd(b, p + 1, IsDigit)
      ws1End == RunEnd(b, dEnd + 2, IsWs)
      c0 == ws1End + Len(<<"a","r","t","i","c","l","e",":">>) + 1
      ws2End == RunEnd(b, c0, IsWs)
      \* the lazy group ([^\n]+?) from index g: its shortest end that lets the rest match
      groupEnds(g) == {e \in g..RunEnd(b, g, NotNewline) : QuoteLineAt(b, e + 1).ok}
      \* the greedy \s* before it gives characters back until the group can start
      gs == {g \in c0..Min(ws2End + 1, Len(b)) : groupEnds(g) # {}}
      g == SetMax(gs)
      e == SetMin(groupEnds(g))
      q == QuoteLineAt(b, e + 1)
  IN IF /\ dEnd >= p + 1
        /\ dEnd + 1 <= Len(b) /\ b[dEnd + 1] = ")"
        /\ MatchAtCI(b, ws1End, <<"a","r","t","i","c","l","e",":">>)
        /\ gs # {}
     THEN [ok |-> TRUE, article |-> Trim(SubSeq(b, g, e)),
           quote |-> Trim(SubSeq(b, q.from, q.to)), end |-> q.to + 1]
     ELSE [ok |-> FALSE, article |-> <<>>, quote |-> <<>>, end |-> 0]

\* the while ((mm = rxItem.exec(block))) loop from lastIndex
\* if (article && quote) items.push({ article, quote })
Pushed(items, mm) ==
  IF mm.article # <<>> /\ mm.quote # <<>>
  THEN Append(items, [article |-> mm.article, quote |-> mm.quote])
  ELSE items

RECURSIVE ExecItems(_, _, _)
ExecItems(b, lastIndex, items) ==
  The({IF at = {} THEN items
       ELSE The({IF Len(Pushed(items, mm)) >= MaxItems THEN Pushed(items, mm)
                 ELSE ExecItems(b, mm.end, Pushed(items, mm)) :
                   mm \in {ItemAt(b, SetMin(at))}}) :
         at \in {{p \in lastIndex..(Len(b) - 1) : IsDigit(b[p + 1]) /\ ItemAt(b, p).ok}}})

parseLegalExcerpts(answer) ==
  LET startIdx == ExcerptsBlockStart(answer)
  IN IF startIdx < 0 THEN <<>>
     ELSE ExecItems(Slice(answer, startIdx, Len(answer)), 0, <<>>)

\* -------------------------------------------------- page loading
IsLetter(c) == c \in UpperSet \cup LowerSet
MinHyphenPart == 2

\* /\b([A-Za-z]{2,})-\s+([A-Za-z]{2,})\b/ tried at offset i of s:
\* [ok, g1, g2, end] with the two letter groups and the offset after the match
HyphenAt(s, i) ==
  LET e1 == RunEnd(s, i + 1, IsLetter)
      wsEnd == RunEnd(s, e1 + 2, IsWs)
      e2 == RunEnd(s, wsEnd + 1, IsLetter)
  IN IF /\ (i = 0 \/ ~IsWordChar(s[i]))
        /\ e1 - i >= MinHyphenPart
        /\ e1 + 1 <= Len(s) /\ s[e1 + 1] = "-"
        /\ wsEnd >= e1 + 2
        /\ e2 - wsEnd >= MinHyphenPart
        /\ (e2 = Len(s) \/ ~IsWordChar(s[e2 + 1]))
     THEN [ok |-> TRUE, g1 |-> SubSeq(s, i + 1, e1), g2 |-> SubSeq(s, wsEnd + 1, e2), end |-> e2]
     ELSE [ok |-> FALSE, g1 |-> <<>>, g2 |-> <<>>, end |-> 0]

\* joined.replace(/\b([A-Za-z]{2,})-\s+([A-Za-z]{2,})\b/g, "$1$2") from offset `from`
RECURSIVE Dehyphenate(_, _)
Dehyphenate(s, from) ==
  LET at == {i \in from..(Len(s) - 1) : HyphenAt(s, i).ok}
      i == SetMin(at)
      m == HyphenAt(s, i)
  IN IF at = {} THEN Slice(s, from, Len(s))
     ELSE Slice(s, from, i) \o m.g1 \o m.g2 \o Dehyphenate(s, m.end)

\* the array loadTextIndex maps out of cba_pages.json, whose entries carry
\* the page number and the page text of the document
IndexPages(doc) == Arr([i \in 1..Len(doc) |-> [num |-> i, text |-> doc[i]]])

\* the array loadPdfText builds from the PDF's pages 1..numPages
PdfPages(doc) == Arr([i \in 1..Len(doc) |-> [num |-> i, text |-> Trim(CollapseWs(Dehyphenate(doc[i], 0)))]])

\* -------------------------------------------------- BM25 fallback
\* round(10^4 * ln k) for k = 1..14
LnTable == <<0, 6931, 10986, 13863, 16094, 17918, 19459, 20794, 21972, 23026, 23979, 24849, 25649, 26391>>

\* idf(n) = ln((N - n + 0.5)/(n + 0.5) + 1) = ln(2N + 2) - ln(2n + 1), in units of 10^-4
idf(N, n) == LnTable[2 * N + 2] - LnTable[2 * n + 1]

\* lower.replace(/[^a-z0-9' -]/g," ").split(/\s+/).filter(Boolean)
IdxToks(text) ==
  LET lower == norm(text)
  IN Words(Arr([i \in 1..Len(lower) |-> IF IsStripKept(lower[i]) THEN lower[i] ELSE " "]))

Count(seq, x) == Cardinality({i \in 1..Len(seq) : seq[i] = x})

\* idf * (tf*(k1+1)) / (tf + k1*(1 - b + b*len/avgdl)) with k1 = 1.5, b = 0.75 and
\* avgdl = total/N, numerator and denominator multiplied by 8*total; boost is in halves
TermScore(idfv, tf, len, N, total, boost) ==
  (boost * idfv * 20 * tf * total) \div (2 * (8 * tf * total + 3 * total + 9 * len * N))

RECURSIVE SumScores(_, _, _, _, _, _, _)
SumScores(terms, toks, df, len, N, total, boost) ==
  IF terms = {} THEN 0
  ELSE LET t == CHOOSE u \in terms : TRUE
           tf == Count(toks, t)
           this == IF df[t] = 0 \/ tf = 0 THEN 0
                   ELSE TermScore(idf(N, df[t]), tf, len, N, total, boost)
       IN this + SumScores(terms \ {t}, toks, df, len, N, total, boost)

\* the scores array before sorting: one [num, s] per page, s in units of 10^-4
bm25Scores(pages, questionText, answerText) ==
  LET toks == Arr([i \in 1..Len(pages) |-> IdxToks(pages[i].text)])
      pairs == Arr([i \in 1..Len(pages) |-> bigrams(toks[i])])
      qTokens == tokenize(questionText \o <<" ">> \o answerText)
      uniqT == Range(qTokens)
      uniqB == Range(bigrams(qTokens))
      N == Len(pages)
      total == SumLen(toks)
      dfT == [t \in uniqT |-> Cardinality({i \in 1..N : t \in Range(toks[i])})]
      dfB == [bg \in uniqB |-> Cardinality({i \in 1..N : bg \in Range(pairs[i])})]
  IN Arr([i \in 1..N |->
            [num |-> pages[i].num,
             s |-> SumScores(uniqT, toks[i], dfT, Len(toks[i]), N, total, 2)
                   + SumScores(uniqB, pairs[i], dfB, Len(toks[i]), N, total, 3)]])

\* the position of the first page with the lowest score
LowestScored(scores) ==
  IF Len(scores) = 0 THEN 0
  ELSE SetMin({i \in 1..Len(scores) : \A j \in 1..Len(scores) : scores[j].s >= scores[i].s})

\* .sort((a,b)=>b.s-a.s).slice(0,1): the position of the first page with the top
\* score (the sort is stable), 0 when there are no pages
TopScored(scores) ==
  IF Len(scores) = 0 THEN 0
  ELSE SetMin({i \in 1..Len(scores) : \A j \in 1..Len(scores) : scores[j].s <= scores[i].s})

\* -------------------------------------------------- citation and bullets
pdfHref == <<"/","m","l","b","/","M","L","B","_","C","B","A","_","2","0","2","2",".","p","d","f">>

BulletLine(page, snip, heading) ==
  <<"BULLET"," ","P","a","g","e"," ">> \o NumText(page) \o <<" ","EMDASH"," ","[","O","p","e","n"," ","p","a","g","e","]","(">> \o pdfHref \o <<"#","p","a","g","e","=">> \o NumText(page)
  \o <<")"," ","EMDASH"," ","LDQ">> \o snip \o <<"RDQ">> \o (IF heading # <<>> THEN <<" ","EMDASH"," ">> \o heading ELSE <<>>)

\* Number(s.match(/Page\s+(\d+)/i)[1])
PageNumberIn(s) ==
  LET numAt(i) ==
        LET wsEnd == RunEnd(s, i + 5, IsWs)
            dEnd == RunEnd(s, wsEnd + 1, IsDigit)
        IN IF MatchAtCI(s, i, <<"p","a","g","e">>) /\ wsEnd >= i + 5 /\ dEnd >= wsEnd + 1
           THEN SubSeq(s, wsEnd + 1, dEnd) ELSE <<>>
      at == {i \in 0..(Len(s) - 1) : numAt(i) # <<>>}
  IN TextNum(numAt(SetMin(at)))

CitationLine(firstHeading, firstPage) ==
  <<"C","i","t","a","t","i","o","n",":"," ","C","B","A"," ","(","2","0","2","2","ENDASH","2","0","2","6",")">> \o (IF firstHeading # <<>> THEN <<","," ">> \o firstHeading ELSE <<>>)
  \o <<";"," ","P","a","g","e"," ">> \o NumText(firstPage) \o <<" ","EMDASH"," ","[","O","p","e","n"," ","p","a","g","e","]","(">> \o pdfHref \o <<"#","p","a","g","e","=">>
  \o NumText(firstPage) \o <<")">>

\* answerText.replace(/(?:^|\n)Citation:[\s\S]*$/i, "")
StripCitation(answerText) ==
  LET at == {i \in 0..(Len(answerText) - 1) :
               MatchAtCI(answerText, i, <<"c","i","t","a","t","i","o","n",":">>) /\ (i = 0 \/ answerText[i] = "\n")}
  IN IF at = {} THEN answerText ELSE Slice(answerText, 0, SetMin(at) - 1)

RECURSIVE JoinLines(_)
JoinLines(ls) ==
  IF Len(ls) = 0 THEN <<>>
  ELSE IF Len(ls) = 1 THEN ls[1]
  ELSE ls[1] \o <<"\n">> \o JoinLines(Tail(ls))

\* -------------------------------------------------- inputs
MaxPages == 2
MaxPasses == 2

TPre == <<"B","a","s","i","c"," ","A","g","r","e","e","m","e","n","t"," "," ","b","e","t","w","e","e","n"," ","t","h","e"," ","c","l","u","b","s"," ","a","n","d"," ","t","h","e"," ","p","l","a","y","e","r","s"," ","a","s","s","o","c","i","a","t","i","o","n",","," ","e","f","f","e","c","t","i","v","e"," ","2","0","2","2",".">>
TIV == <<"A","R","T","I","C","L","E"," ","I","V","EMDASH","P","l","a","y","e","r"," ","Q","u","a","l","i","f","i","c","a","t","i","o","n","s","\n","N","o"," ","p","l","a","y","e","r"," ","s","h","a","l","l"," ","b","e"," ","o","p","t","i","o","n","e","d"," ","m","o","r","e"," ","t","h","a","n"," ","t","h","r","e","e"," ","t","i","m","e","s"," ","w","i","t","h","o","u","t"," ","f","i","r","s","t"," ","c","l","e","a","r","i","n","g"," ","w","a","i","v","e","r","s",".">>
TXIX == <<"A","R","T","I","C","L","E"," ","X","I","X","EMDASH","O","p","t","i","o","n","a","l"," ","A","s","s","i","g","n","m","e","n","t","s"," ","A"," ","c","o","n","t","r","a","c","t"," ","m","a","y"," ","b","e"," ","o","p","t","i","o","n","e","d"," ","i","n"," ","n","o","t"," ","m","o","r","e"," ","t","h","a","n"," ","t","h","r","e","e"," ","c","h","a","m","-"," ","p","i","o","n","s","h","i","p"," ","s","e","a","s","o","n","s",".">>
TRef == <<"O","u","t","r","i","g","h","t"," ","w","a","i","v","e","r","s",","," ","a","s"," ","d","e","f","i","n","e","d"," ","i","n"," ","A","r","t","i","c","l","e"," ","I","V","(","B",")",","," ","m","e","a","n"," ","t","h","e"," ","c","l","u","b"," ","m","a","y"," ","a","s","s","i","g","n"," ","t","h","e"," ","c","o","n","t","r","a","c","t"," ","t","o"," ","a"," ","m","i","n","o","r"," ","l","e","a","g","u","e"," ","c","l","u","b",".">>
PageTexts == {TPre, TIV, TXIX, TRef}

RECURSIVE SeqsUpTo(_, _)
SeqsUpTo(S, n) ==
  IF n = 0 THEN {<<>>}
  ELSE LET shorter == SeqsUpTo(S, n - 1)
       IN shorter \cup {Append(s, e) : s \in {t \in shorter : Len(t) = n - 1}, e \in S}

Documents == SeqsUpTo(PageTexts, MaxPages)

QOptions == <<"H","o","w"," ","m","a","n","y"," ","t","i","m","e","s"," ","m","a","y"," ","a"," ","p","l","a","y","e","r"," ","b","e"," ","o","p","t","i","o","n","e","d","?">>
QUmpires == <<"W","h","a","t"," ","d","o"," ","u","m","p","i","r","e","s"," ","w","e","a","r","?">>
Questions == {QOptions, QUmpires}

ANone == <<"S","u","m","m","a","r","y",":"," ","A"," ","p","l","a","y","e","r"," ","m","a","y"," ","b","e"," ","o","p","t","i","o","n","e","d"," ","t","h","r","e","e"," ","t","i","m","e","s",".","\n","D","i","s","c","l","a","i","m","e","r",":"," ","n","o","t"," ","l","e","g","a","l"," ","a","d","v","i","c","e",".">>
AAfter == <<"S","u","m","m","a","r","y",":"," ","t","h","r","e","e"," ","o","p","t","i","o","n"," ","y","e","a","r","s",".","\n","C","i","t","a","t","i","o","n",":"," ","C","B","A",","," ","A","r","t","i","c","l","e"," ","X","I","X",";"," ","P","a","g","e"," ","2","3","\n","L","E","G","A","L","_","E","X","C","E","R","P","T","S",":","\n","1",")"," ","A","R","T","I","C","L","E",":"," ","A","r","t","i","c","l","e"," ","I","V"," ","|"," ","P","A","G","E",":"," ","2","3","\n"," "," "," ","Q","U","O","T","E",":"," ","\"","N","o"," ","p","l","a","y","e","r"," ","s","h","a","l","l"," ","b","e"," ","o","p","t","i","o","n","e","d"," ","m","o","r","e"," ","t","h","a","n"," ","t","h","r","e","e"," ","t","i","m","e","s","\"","\n","2",")"," ","A","R","T","I","C","L","E",":"," ","A","r","t","i","c","l","e"," ","X","I","X"," ","|"," ","P","A","G","E",":"," ","4","1","\n"," "," "," ","Q","U","O","T","E",":"," ","\"","m","a","y"," ","b","e"," ","o","p","t","i","o","n","e","d"," ","i","n"," ","n","o","t"," ","m","o","r","e"," ","t","h","a","n"," ","t","h","r","e","e"," ","c","h","a","m","p","i","o","n","s","h","i","p"," ","s","e","a","s","o","n","s","\"">>
ABefore == <<"S","u","m","m","a","r","y",":"," ","t","h","r","e","e"," ","o","p","t","i","o","n"," ","y","e","a","r","s",".","\n","L","E","G","A","L","_","E","X","C","E","R","P","T","S",":","\n","1",")"," ","A","R","T","I","C","L","E",":"," ","A","r","t","i","c","l","e"," ","I","V"," ","|"," ","P","A","G","E",":"," ","2","3","\n"," "," "," ","Q","U","O","T","E",":"," ","\"","N","o"," ","p","l","a","y","e","r"," ","s","h","a","l","l"," ","b","e"," ","o","p","t","i","o","n","e","d"," ","m","o","r","e"," ","t","h","a","n"," ","t","h","r","e","e"," ","t","i","m","e","s","\"","\n","2",")"," ","A","R","T","I","C","L","E",":"," ","A","r","t","i","c","l","e"," ","X","I","X"," ","|"," ","P","A","G","E",":"," ","4","1","\n"," "," "," ","Q","U","O","T","E",":"," ","\"","m","a","y"," ","b","e"," ","o","p","t","i","o","n","e","d"," ","i","n"," ","n","o","t"," ","m","o","r","e"," ","t","h","a","n"," ","t","h","r","e","e"," ","c","h","a","m","p","i","o","n","s","h","i","p"," ","s","e","a","s","o","n","s","\"","\n","C","i","t","a","t","i","o","n",":"," ","C","B","A",","," ","A","r","t","i","c","l","e"," ","X","I","X",";"," ","P","a","g","e"," ","2","3">>
APre == <<"S","u","m","m","a","r","y",":"," ","t","h","e"," ","a","g","r","e","e","m","e","n","t"," ","b","i","n","d","s"," ","b","o","t","h"," ","s","i","d","e","s",".","\n","L","E","G","A","L","_","E","X","C","E","R","P","T","S",":","\n","1",")"," ","A","R","T","I","C","L","E",":"," ","A","r","t","i","c","l","e"," ","I","I"," ","|"," ","P","A","G","E",":"," ","2","3","\n"," "," "," ","Q","U","O","T","E",":"," ","\"","b","e","t","w","e","e","n"," ","t","h","e"," ","c","l","u","b","s"," ","a","n","d"," ","t","h","e"," ","p","l","a","y","e","r","s"," ","a","s","s","o","c","i","a","t","i","o","n","\"","\n","C","i","t","a","t","i","o","n",":"," ","C","B","A",","," ","A","r","t","i","c","l","e"," ","I","I",";"," ","P","a","g","e"," ","2","3">>
AMiss == <<"S","u","m","m","a","r","y",":"," ","u","m","p","i","r","e","s"," ","w","e","a","r"," ","d","a","r","k"," ","u","n","i","f","o","r","m","s",".","\n","L","E","G","A","L","_","E","X","C","E","R","P","T","S",":","\n","1",")"," ","A","R","T","I","C","L","E",":"," ","A","r","t","i","c","l","e"," ","X","L"," ","|"," ","P","A","G","E",":"," ","7","\n"," "," "," ","Q","U","O","T","E",":"," ","\"","u","m","p","i","r","e","s"," ","m","u","s","t"," ","w","e","a","r"," ","d","a","r","k"," ","u","n","i","f","o","r","m","s","\"">>
AGarbled == <<"S","u","m","m","a","r","y",":"," ","t","h","r","e","e"," ","o","p","t","i","o","n"," ","y","e","a","r","s",".","\n","L","E","G","A","L","_","E","X","C","E","R","P","T","S",":","\n","-"," ","A","r","t","i","c","l","e"," ","X","I","X"," ","l","e","t","s"," ","a"," ","c","l","u","b"," ","o","p","t","i","o","n"," ","a"," ","c","o","n","t","r","a","c","t"," ","i","n"," ","t","h","r","e","e"," ","s","e","a","s","o","n","s",".">>
Answers == {ANone, AAfter, ABefore, APre, AMiss, AGarbled}

\* what the deployment serves: the page index, only the PDF, or neither
Sources == {"index", "pdf", "none"}

\* -------------------------------------------------- state
\* attachVerification: the deployment (document, source), the call's arguments, the
\* number of the call (pass), the position in it (pc) and its locals; firstPass keeps
\* the page and the bullet pages the first call resolved
VARIABLES document, source, questionText, answerText, pass, pc,
          pages, articleRanges, items, bullets, foundHits, scores, citation, result, firstPass
\* a call of findQuoteOnPages: arguments, the per-page fuzzyBestIndex, the returned hit
VARIABLES quote, preferRange, fuzzy, hit
\* the chat handler: the page index it fetched, the quotes of the answer, the pages
\* found for them and the verification bullets
VARIABLES pagesJSON, quotes, found, verification

mainVars == <<document, source, questionText, answerText, pass,
              items, bullets, foundHits, scores, citation, result, firstPass>>
locVars == <<quote, preferRange, fuzzy, hit>>
chatVars == <<pagesJSON, quotes, found, verification>>

\* the BM25 linker: the ranking bm25Score returned and the anchor page
VARIABLES winners, anchor

\* the handler of pages/api/chat.js: the status of the run, the text of the
\* assistant message, the handler's raw and finalText, and the response sent
VARIABLES status, assistantMsg, raw, finalText, res

\* the page cache of lib/pdfIndex.js: the published PDF, the module's _normPages
\* and _rawPages, the requests in flight, and the number of populations so far
VARIABLES pdf, _normPages, _rawPages, req, populations

rankVars == <<winners, anchor>>
handlerVars == <<status, assistantMsg, raw, finalText, res>>
\* the snippet of one hit: the text of the page, the quote, the offset of the hit
\* (hit.idx), how the offset was found, and the snippet
VARIABLES snipPage, snipQuote, snipIdx, snipFrom, snip

cacheVars == <<pdf, _normPages, _rawPages, req, populations>>
snipVars == <<snipPage, snipQuote, snipIdx, snipFrom, snip>>
\* the excerpts block given to parseLegalExcerpts: the shape of each entry,
\* the answer written from them, and the items parsed
VARIABLES entries, excerptsAnswer, parsed
parseVars == <<entries, excerptsAnswer, parsed>>

\* the line scanner of lib/linkifyCitations.js: KEY_INDEX of the module, the text
\* given to linkifyCitations and the text returned
VARIABLES KEY_INDEX, scanText, linked
linkifyVars == <<KEY_INDEX, scanText, linked>>

\* findBestPageFromQuote of lib/pdfIndex.js: the raw page texts of the cache, the
\* quote, and the best page with its score (page 0 for null)
VARIABLES quotePages, rawQuote, bestPage
bestVars == <<quotePages, rawQuote, bestPage>>

\* attachVerification of lib/pdfIndex.js: the page texts of the PDF, the pages the
\* module holds once loaded, the answer given, what the call returned, and the
\* number of calls made
VARIABLES verifyPdf, verifyPages, verifyLoaded, verifyAnswer, verifyOut, applied
verifyVars == <<verifyPdf, verifyPages, verifyLoaded, verifyAnswer, verifyOut, applied>>

\* the polling loop of the handler of pages/api/chat.js: the status of the run last
\* observed, the polls made, whether a request threw, whether the messages were read
\* and attachVerification called, and the response sent
VARIABLES runStatus, tries, threw, messagesRead, attachCalled, pollRes
pollVars == <<runStatus, tries, threw, messagesRead, attachCalled, pollRes>>

\* the chat widget of pages/embed.js: the React state (messages by role, input,
\* isTyping, error), the isTyping of the last render, which the handlers read, each
\* call of submit by where it stands, and what the last event did
VARIABLES messages, input, isTyping, widgetError, shownTyping, calls, lastEvent
widgetVars == <<messages, input, isTyping, widgetError, shownTyping, calls, lastEvent>>

\* linkifyCitations of the regular-expression linker: the text given, the text
\* returned, the text the first pass returned, and the passes made
VARIABLES linkText, relinked, firstLinked, linkPasses
relinkVars == <<linkText, relinked, firstLinked, linkPasses>>

\* getPagesJSON of the chat handler: PAGES_CACHE of the module, the page list the
\* server holds as cba_pages.json, each call by where it stands, and every value
\* assigned to PAGES_CACHE so far
VARIABLES PAGES_CACHE, pagesFile, jsonReq, assigned
storeVars == <<PAGES_CACHE, pagesFile, jsonReq, assigned>>

moreVars == <<parseVars, linkifyVars, bestVars, verifyVars, pollVars, widgetVars, relinkVars, storeVars>>

ParseOthers ==
  <<pages, articleRanges, mainVars, locVars, chatVars, rankVars,
    handlerVars, cacheVars, snipVars, linkifyVars, bestVars, verifyVars,
    pollVars, widgetVars, relinkVars, storeVars>>

LinkifyOthers ==
  <<pages, articleRanges, mainVars, locVars, chatVars, rankVars,
    handlerVars, cacheVars, snipVars, parseVars, bestVars, verifyVars,
    pollVars, widgetVars, relinkVars, storeVars>>

BestOthers ==
  <<pages, articleRanges, mainVars, locVars, chatVars, rankVars,
    handlerVars, cacheVars, snipVars, parseVars, linkifyVars, verifyVars,
    pollVars, widgetVars, relinkVars, storeVars>>

VerifyOthers ==
  <<pages, articleRanges, mainVars, locVars, chatVars, rankVars,
    handlerVars, cacheVars, snipVars, parseVars, linkifyVars, bestVars,
    pollVars, widgetVars, relinkVars, storeVars>>

PollOthers ==
  <<pages, articleRanges, mainVars, locVars, chatVars, rankVars,
    handlerVars, cacheVars, snipVars, parseVars, linkifyVars, bestVars,
    verifyVars, widgetVars, relinkVars, storeVars>>

WidgetOthers ==
  <<pages, articleRanges, mainVars, locVars, chatVars, rankVars,
    handlerVars, cacheVars, snipVars, parseVars, linkifyVars, bestVars,
    verifyVars, pollVars, relinkVars, storeVars>>

RelinkOthers ==
  <<pages, articleRanges, mainVars, locVars, chatVars, rankVars,
    handlerVars, cacheVars, snipVars, parseVars, linkifyVars, bestVars,
    verifyVars, pollVars, widgetVars, storeVars>>

StoreOthers ==
  <<pages, articleRanges, mainVars, locVars, chatVars, rankVars,
    handlerVars, cacheVars, snipVars, parseVars, linkifyVars, bestVars,
    verifyVars, pollVars, widgetVars, relinkVars>>

restVars == <<rankVars, handlerVars, cacheVars, snipVars, moreVars>>
vars == <<pc, pages, articleRanges, mainVars, locVars, chatVars, restVars>>

NoResult == [text |-> <<>>, page |-> 0]
NoPass == [page |-> 0, pages |-> {}]

MainIdle ==
  /\ document = <<>>
  /\ source = "none"
  /\ questionText = <<>>
  /\ answerText = <<>>
  /\ pass = 1
  /\ items = <<>>
  /\ bullets = <<>>
  /\ foundHits = <<>>
  /\ scores = <<>>
  /\ citation = <<>>
  /\ result = NoResult
  /\ firstPass = NoPass

LocIdle ==
  /\ quote = <<>>
  /\ preferRange = NullRange
  /\ fuzzy = <<>>
  /\ hit = NullHit

ChatIdle ==
  /\ pagesJSON = <<>>
  /\ quotes = <<>>
  /\ found = <<>>
  /\ verification = <<>>

NoAnchor == [num |-> 0, score |-> 0]

RankIdle ==
  /\ winners = <<>>
  /\ anchor = NoAnchor

NoResponse == [code |-> 0, result |-> <<>>]

HandlerIdle ==
  /\ status = "none"
  /\ assistantMsg = <<>>
  /\ raw = <<>>
  /\ finalText = <<>>
  /\ res = NoResponse

\* let _normPages = null; let _rawPages = null;
Null == "null"

CacheIdle ==
  /\ pdf = <<>>
  /\ _normPages = Null
  /\ _rawPages = Null
  /\ req = <<>>
  /\ populations = 0

SnipIdle ==
  /\ snipPage = <<>>
  /\ snipQuote = <<>>
  /\ snipIdx = -1
  /\ snipFrom = "none"
  /\ snip = <<>>

ParseIdle ==
  /\ entries = <<>>
  /\ excerptsAnswer = <<>>
  /\ parsed = <<>>

LinkifyIdle ==
  /\ KEY_INDEX = <<>>
  /\ scanText = <<>>
  /\ linked = <<>>

BestIdle ==
  /\ quotePages = <<>>
  /\ rawQuote = <<>>
  /\ bestPage = [page |-> 0, score |-> [hit |-> 0, of |-> 1]]

VerifyIdle ==
  /\ verifyPdf = <<>>
  /\ verifyPages = <<>>
  /\ verifyLoaded = FALSE
  /\ verifyAnswer = <<>>
  /\ verifyOut = [text |-> <<>>, changed |-> FALSE, results |-> <<>>]
  /\ applied = 0

PollIdle ==
  /\ runStatus = "none"
  /\ tries = 0
  /\ threw = FALSE
  /\ messagesRead = FALSE
  /\ attachCalled = FALSE
  /\ pollRes = [result |-> <<>>, code |-> 0]

WidgetIdle ==
  /\ messages = <<>>
  /\ input = <<>>
  /\ isTyping = FALSE
  /\ widgetError = <<>>
  /\ shownTyping = FALSE
  /\ calls = <<>>
  /\ lastEvent = "none"

RelinkIdle ==
  /\ linkText = <<>>
  /\ relinked = <<>>
  /\ firstLinked = <<>>
  /\ linkPasses = 0

StoreIdle ==
  /\ PAGES_CACHE = Null
  /\ pagesFile = <<>>
  /\ jsonReq = <<>>
  /\ assigned = <<>>

MoreIdle ==
  /\ ParseIdle
  /\ LinkifyIdle
  /\ BestIdle
  /\ VerifyIdle
  /\ PollIdle
  /\ WidgetIdle
  /\ RelinkIdle
  /\ StoreIdle

ParseOthersIdle ==
  /\ pages = <<>>
  /\ articleRanges = <<>>
  /\ MainIdle
  /\ LocIdle
  /\ ChatIdle
  /\ RankIdle
  /\ HandlerIdle
  /\ CacheIdle
  /\ SnipIdle
  /\ LinkifyIdle
  /\ BestIdle
  /\ VerifyIdle
  /\ PollIdle
  /\ WidgetIdle
  /\ RelinkIdle
  /\ StoreIdle

LinkifyOthersIdle ==
  /\ pages = <<>>
  /\ articleRanges = <<>>
  /\ MainIdle
  /\ LocIdle
  /\ ChatIdle
  /\ RankIdle
  /\ HandlerIdle
  /\ CacheIdle
  /\ SnipIdle
  /\ ParseIdle
  /\ BestIdle
  /\ VerifyIdle
  /\ PollIdle
  /\ WidgetIdle
  /\ RelinkIdle
  /\ StoreIdle

BestOthersIdle ==
  /\ pages = <<>>
  /\ articleRanges = <<>>
  /\ MainIdle
  /\ LocIdle
  /\ ChatIdle
  /\ RankIdle
  /\ HandlerIdle
  /\ CacheIdle
  /\ SnipIdle
  /\ ParseIdle
  /\ LinkifyIdle
  /\ VerifyIdle
  /\ PollIdle
  /\ WidgetIdle
  /\ RelinkIdle
  /\ StoreIdle

VerifyOthersIdle ==
  /\ pages = <<>>
  /\ articleRanges = <<>>
  /\ MainIdle
  /\ LocIdle
  /\ ChatIdle
  /\ RankIdle
  /\ HandlerIdle
  /\ CacheIdle
  /\ SnipIdle
  /\ ParseIdle
  /\ LinkifyIdle
  /\ BestIdle
  /\ PollIdle
  /\ WidgetIdle
  /\ RelinkIdle
  /\ StoreIdle

PollOthersIdle ==
  /\ pages = <<>>
  /\ articleRanges = <<>>
  /\ MainIdle
  /\ LocIdle
  /\ ChatIdle
  /\ RankIdle
  /\ HandlerIdle
  /\ CacheIdle
  /\ SnipIdle
  /\ ParseIdle
  /\ LinkifyIdle
  /\ BestIdle
  /\ VerifyIdle
  /\ WidgetIdle
  /\ RelinkIdle
  /\ StoreIdle

WidgetOthersIdle ==
  /\ pages = <<>>
  /\ articleRanges = <<>>
  /\ MainIdle
  /\ LocIdle
  /\ ChatIdle
  /\ RankIdle
  /\ HandlerIdle
  /\ CacheIdle
  /\ SnipIdle
  /\ ParseIdle
  /\ LinkifyIdle
  /\ BestIdle
  /\ VerifyIdle
  /\ PollIdle
  /\ RelinkIdle
  /\ StoreIdle

RelinkOthersIdle ==
  /\ pages = <<>>
  /\ articleRanges = <<>>
  /\ MainIdle
  /\ LocIdle
  /\ ChatIdle
  /\ RankIdle
  /\ HandlerIdle
  /\ CacheIdle
  /\ SnipIdle
  /\ ParseIdle
  /\ LinkifyIdle
  /\ BestIdle
  /\ VerifyIdle
  /\ PollIdle
  /\ WidgetIdle
  /\ StoreIdle

StoreOthersIdle ==
  /\ pages = <<>>
  /\ articleRanges = <<>>
  /\ MainIdle
  /\ LocIdle
  /\ ChatIdle
  /\ RankIdle
  /\ HandlerIdle
  /\ CacheIdle
  /\ SnipIdle
  /\ ParseIdle
  /\ LinkifyIdle
  /\ BestIdle
  /\ VerifyIdle
  /\ PollIdle
  /\ WidgetIdle
  /\ RelinkIdle

RestIdle ==
  /\ RankIdle
  /\ HandlerIdle
  /\ CacheIdle
  /\ SnipIdle
  /\ MoreIdle

\* -------------------------------------------------- attachVerification
Init ==
  /\ document \in Documents
  /\ source \in Sources
  /\ questionText \in Questions
  /\ answerText \in Answers
  /\ pass = 1
  /\ pc = "loadTextIndex"
  /\ pages = <<>>
  /\ articleRanges = <<>>
  /\ items = <<>>
  /\ bullets = <<>>
  /\ foundHits = <<>>
  /\ scores = <<>>
  /\ citation = <<>>
  /\ result = NoResult
  /\ firstPass = NoPass
  /\ LocIdle
  /\ ChatIdle
  /\ RestIdle

\* let pages = await loadTextIndex(origin): null when the index is unreadable or empty
LoadTextIndex ==
  /\ pc = "loadTextIndex"
  /\ IF source = "index" /\ Len(document) > 0
     THEN pages' = IndexPages(document) /\ pc' = "mapQuotes"
     ELSE pages' = <<>> /\ pc' = "loadPdfText"
  /\ UNCHANGED <<articleRanges, mainVars, locVars, chatVars, restVars>>

\* if (!pages || !pages.length) pages = await loadPdfText(origin, pdfHref): throws
\* when the PDF cannot be fetched
LoadPdfText ==
  /\ pc = "loadPdfText"
  /\ IF source = "none"
     THEN pages' = pages /\ pc' = "thrown"
     ELSE pages' = PdfPages(document) /\ pc' = "mapQuotes"
  /\ UNCHANGED <<articleRanges, mainVars, locVars, chatVars, restVars>>

\* one turn of the loop over quotes.slice(0,4): the hit, or NullHit
HitOf(it, ps, ranges) == findQuoteOnPages(it.quote, ps, rangeForArticleLabel(ranges, it.article))

HeadingOf(it, h, ranges) ==
  LET rng == rangeForPage(ranges, h.page)
  IN IF ~IsNull(rng) /\ rng.title # <<>> THEN rng.title ELSE it.article

\* buildArticleRanges, parseLegalExcerpts and the loop mapping each quote to a page:
\* the values of articleRanges, items, bullets and foundHits after the loop
ItemBullets(its, ranges, hits) ==
  The({[articleRanges |-> ranges,
        items |-> its,
        bullets |-> Arr([j \in 1..Len(kept) |->
                           BulletLine(hits[kept[j]].page,
                                      snippetAround(hits[kept[j]].text, hits[kept[j]].idx),
                                      HeadingOf(its[kept[j]], hits[kept[j]], ranges))]),
        foundHits |-> Arr([j \in 1..Len(kept) |->
                             [page |-> hits[kept[j]].page,
                              heading |-> HeadingOf(its[kept[j]], hits[kept[j]], ranges)]])] :
         kept \in {SelectSeq(Arr([k \in 1..Len(its) |-> k]), LAMBDA k : hits[k].page # 0)}})

MappedItems(ps, ranges, its) ==
  ItemBullets(its, ranges, Arr([k \in 1..Len(its) |-> HitOf(its[k], ps, ranges)]))

MappedQuotes(ps, answer) == MappedItems(ps, buildArticleRanges(ps), parseLegalExcerpts(answer))

MapQuotes ==
  /\ pc = "mapQuotes"
  /\ \E m \in {MappedQuotes(pages, answerText)} :
       /\ articleRanges' = m.articleRanges
       /\ items' = m.items
       /\ bullets' = m.bullets
       /\ foundHits' = m.foundHits
       /\ pc' = IF Len(m.bullets) = 0 THEN "fallback" ELSE "inject"
  /\ UNCHANGED <<document, source, questionText, answerText, pass, pages, scores, citation,
                 result, firstPass, locVars, chatVars, restVars>>

\* if (!bullets.length): BM25 over the whole document with the question and answer
\* text; the values of scores, bullets and foundHits after the block
FallbackBullet(pg, sc, heading) ==
  [scores |-> <<sc>>,
   bullets |-> <<BulletLine(pg.num, snippetAround(pg.text, Len(norm(pg.text)) \div 2), heading)>>,
   foundHits |-> <<[page |-> pg.num, heading |-> heading]>>]

RankedPage(ps, ranges, sc) ==
  The({FallbackBullet(pg, sc, The({IF IsNull(rng) THEN <<>> ELSE rng.title :
                                     rng \in {rangeForPage(ranges, pg.num)}})) :
         pg \in {ps[SetMin({i \in 1..Len(ps) : ps[i].num = sc.num})]}})

RankedAmong(ps, ranges, all) ==
  The({IF top = 0 THEN [scores |-> <<>>, bullets |-> <<>>, foundHits |-> <<>>]
       ELSE RankedPage(ps, ranges, all[top]) : top \in {TopScored(all)}})

RankedFallback(ps, ranges, question, answer) ==
  RankedAmong(ps, ranges, bm25Scores(ps, question, answer))

Fallback ==
  /\ pc = "fallback"
  /\ \E f \in {RankedFallback(pages, articleRanges, questionText, answerText)} :
       /\ scores' = f.scores
       /\ bullets' = f.bullets
       /\ foundHits' = f.foundHits
  /\ pc' = "inject"
  /\ UNCHANGED <<document, source, questionText, answerText, pass, pages, articleRanges, items,
                 citation, result, firstPass, locVars, chatVars, restVars>>

\* the final Citation and the injected text: the citation line, the returned
\* { text, page }, and the pages of the bullets listed
Injected(answer, bs, hits, ranges) ==
  LET firstPage == IF Len(bs) > 0 THEN PageNumberIn(bs[1]) ELSE 1
      rng == rangeForPage(ranges, firstPage)
      firstHeading == IF ~IsNull(rng) /\ rng.title # <<>> THEN rng.title
                      ELSE IF Len(hits) > 0 THEN hits[1].heading ELSE <<>>
      line == CitationLine(firstHeading, firstPage)
      base == Trim(StripCitation(answer))
  IN [citation |-> line,
      text |-> Trim(base \o <<"\n","\n">> \o line \o <<"\n","\n","EMDASH","EMDASH"," ","S","o","u","r","c","e"," ","t","e","x","t"," ","EMDASH","EMDASH","\n">> \o JoinLines(bs)),
      page |-> firstPage,
      pages |-> {hits[j].page : j \in 1..Len(hits)}]

Inject ==
  /\ pc = "inject"
  /\ \E out \in {Injected(answerText, bullets, foundHits, articleRanges)} :
       /\ citation' = out.citation
       /\ result' = [text |-> out.text, page |-> out.page]
       /\ firstPass' = IF pass = 1 THEN [page |-> out.page, pages |-> out.pages] ELSE firstPass
  /\ pc' = "returned"
  /\ UNCHANGED <<document, source, questionText, answerText, pass, pages, articleRanges, items,
                 bullets, foundHits, scores, locVars, chatVars, restVars>>

\* attachVerification called again on the text it returned, with the same question
Rerun ==
  /\ pc = "returned"
  /\ pass < MaxPasses
  /\ answerText' = result.text
  /\ pass' = pass + 1
  /\ pc' = "loadTextIndex"
  /\ pages' = <<>>
  /\ articleRanges' = <<>>
  /\ items' = <<>>
  /\ bullets' = <<>>
  /\ foundHits' = <<>>
  /\ scores' = <<>>
  /\ citation' = <<>>
  /\ result' = NoResult
  /\ UNCHANGED <<document, source, questionText, firstPass, locVars, chatVars, restVars>>

Next ==
  \/ LoadTextIndex
  \/ LoadPdfText
  \/ MapQuotes
  \/ Fallback
  \/ Inject
  \/ Rerun

Spec == Init /\ [][Next]_vars

\* -------------------------------------------------- findQuoteOnPages on its own
MaxLocPages == 2

LExact == <<"N","o"," ","p","l","a","y","e","r"," ","s","h","a","l","l"," ","b","e"," ","o","p","t","i","o","n","e","d"," ","m","o","r","e"," ","t","h","a","n"," ","t","h","r","e","e"," ","t","i","m","e","s",".">>
LFuzzy == <<"A"," ","p","l","a","y","e","r"," ","o","p","t","i","o","n","e","d"," ","m","o","r","e"," ","t","h","a","n"," ","t","h","r","e","e"," ","t","i","m","e","s"," ","m","u","s","t"," ","c","l","e","a","r"," ","w","a","i","v","e","r","s",".">>
LNone == <<"U","m","p","i","r","e","s"," ","w","e","a","r"," ","d","a","r","k"," ","u","n","i","f","o","r","m","s",".">>
LFive == <<"a","l","p","h","a"," ","b","r","a","v","o"," ","c","h","a","r","l","i","e"," ","d","e","l","t","a"," ","e","c","h","o">>
LSix == <<"a","l","p","h","a"," ","b","r","a","v","o"," ","c","h","a","r","l","i","e"," ","d","e","l","t","a"," ","e","c","h","o"," ","f","o","x","t","r","o","t">>
LOut == <<"o","u","t"," ","a","t"," ","h","o","m","e"," ","p","l","a","t","e">>
LocTexts == {LExact, LFuzzy, LNone, LFive, LSix, LOut}

RECURSIVE Repeat(_, _)
Repeat(s, n) == IF n = 0 THEN <<>> ELSE s \o Repeat(s, n - 1)

QOptioned == <<"n","o"," ","p","l","a","y","e","r"," ","s","h","a","l","l"," ","b","e"," ","o","p","t","i","o","n","e","d"," ","m","o","r","e"," ","t","h","a","n"," ","t","h","r","e","e"," ","t","i","m","e","s">>
QTen == <<"a","l","p","h","a"," ","b","r","a","v","o"," ","c","h","a","r","l","i","e"," ","d","e","l","t","a"," ","e","c","h","o"," ","f","o","x","t","r","o","t"," ","g","o","l","f"," ","h","o","t","e","l"," ","i","n","d","i","a"," ","j","u","l","i","e","t">>
\* a quote of QuoteMaxLen - 1 characters: a hundred tokens, 55 of them "out"
QHundred == Repeat(<<"o","u","t"," ">>, 55) \o Repeat(<<"r","u","n"," ">>, 44) \o <<"r","u","n">>
LocQuotes == {QOptioned, QTen, QHundred}

LocPageLists == {IndexPages(d) : d \in SeqsUpTo(LocTexts, MaxLocPages)}

\* null, or a range of the page list
PreferRanges(ps) ==
  {NullRange} \cup UNION {{[start |-> a, end |-> b, title |-> <<"A","r","t","i","c","l","e"," ","I">>] : b \in a..Len(ps)} :
                            a \in 1..Len(ps)}

InitLocate ==
  /\ pc = "fuzzyBestIndex"
  /\ pages \in LocPageLists
  /\ quote \in LocQuotes
  /\ preferRange \in PreferRanges(pages)
  /\ fuzzy = <<>>
  /\ hit = NullHit
  /\ articleRanges = <<>>
  /\ MainIdle
  /\ ChatIdle
  /\ RestIdle

\* fuzzyBestIndex(p.text, quote) for each page p
FuzzyEachPage ==
  /\ pc = "fuzzyBestIndex"
  /\ fuzzy' = Arr([k \in 1..Len(pages) |-> fuzzyBestIndex(pages[k].text, quote)])
  /\ pc' = "findQuoteOnPages"
  /\ UNCHANGED <<pages, articleRanges, mainVars, chatVars, restVars, quote, preferRange, hit>>

\* findQuoteOnPages(quote, pages, preferRange)
Locate ==
  /\ pc = "findQuoteOnPages"
  /\ hit' = findQuoteOnPages(quote, pages, preferRange)
  /\ pc' = "located"
  /\ UNCHANGED <<pages, articleRanges, mainVars, chatVars, restVars, quote, preferRange, fuzzy>>

NextLocate ==
  \/ FuzzyEachPage
  \/ Locate

SpecLocate == InitLocate /\ [][NextLocate]_vars

\* -------------------------------------------------- buildArticleRanges on its own
MaxRangePages == 3

\* a page whose heading starts after the first PageStartChars characters
TLate == Repeat(<<"T","h","e"," ","c","l","u","b","s"," ","a","n","d"," ","t","h","e"," ","p","l","a","y","e","r","s"," ","a","g","r","e","e"," ","a","s"," ","f","o","l","l","o","w","s","."," ">>, 21) \o <<"A","R","T","I","C","L","E"," ","V","EMDASH","S","c","h","e","d","u","l","i","n","g","\n","T","h","e"," ","c","h","a","m","p","i","o","n","s","h","i","p"," ","s","e","a","s","o","n",".">>
RangeTexts == {TPre, TIV, TXIX, TRef, TLate}

InitRanges ==
  /\ pc = "buildArticleRanges"
  /\ pages \in {IndexPages(d) : d \in SeqsUpTo(RangeTexts, MaxRangePages)}
  /\ articleRanges = <<>>
  /\ MainIdle
  /\ LocIdle
  /\ ChatIdle
  /\ RestIdle

\* const articleRanges = buildArticleRanges(pages)
BuildRanges ==
  /\ pc = "buildArticleRanges"
  /\ articleRanges' = buildArticleRanges(pages)
  /\ pc' = "ranged"
  /\ UNCHANGED <<pages, mainVars, locVars, chatVars, restVars>>

NextRanges == BuildRanges

SpecRanges == InitRanges /\ [][NextRanges]_vars

\* -------------------------------------------------- the chat handler's quote mapping
\* A page of the chat handler is [page, text]; a found entry is [page, quote,
\* snippet, score, source], the score a fraction [hit, of].
ChatNormChar(c) ==
  IF c \in {"LSQ", "RSQ"} THEN "'"
  ELSE IF c \in {"LDQ", "RDQ"} THEN "\""
  ELSE IF LowerChar(c) \in LowerSet \cup DigitSet \cup {"'", "\""} \/ IsWs(c) THEN LowerChar(c)
  ELSE " "

normalize(s) == Trim(CollapseWs(Arr([i \in 1..Len(s) |-> ChatNormChar(s[i])])))

ScoreMaxTokens == 8
ScoreMinTokenLen == 3

\* hit / Math.max(1, toks.length), kept as the fraction [hit, of]
scoreByTokens(hay, needle) ==
  LET toks == Slice(Words(normalize(needle)), 0, ScoreMaxTokens)
  IN [hit |-> Cardinality({k \in 1..Len(toks) :
                             Len(toks[k]) >= ScoreMinTokenLen /\ Includes(hay, toks[k])}),
      of |-> Max(1, Len(toks))]

ScoreAbove(a, b) == a.hit * b.of > b.hit * a.of

NoBest == [page |-> 0, quote |-> <<>>, snippet |-> <<>>, score |-> [hit |-> 0, of |-> 1], source |-> "none"]

\* the inner loop over normPages for the quote q: best after the loop
BestPageFor(normPages, q) ==
  LET nq == normalize(q)
      exact == {k \in 1..Len(normPages) : Includes(normPages[k].text, nq)}
      sc == Arr([k \in 1..Len(normPages) |-> scoreByTokens(normPages[k].text, q)])
      top == {k \in 1..Len(normPages) : \A j \in 1..Len(normPages) : ~ScoreAbove(sc[j], sc[k])}
  IN IF exact # {}
     THEN [page |-> normPages[SetMin(exact)].page, quote |-> q, snippet |-> <<>>,
           score |-> [hit |-> Len(nq), of |-> 1], source |-> "exact"]
     ELSE IF Len(normPages) = 0 THEN NoBest
     ELSE [page |-> normPages[SetMin(top)].page, quote |-> q, snippet |-> <<>>,
           score |-> sc[SetMin(top)], source |-> "fuzzy"]

findPagesForQuotes(ps, qs) ==
  LET normPages == Arr([k \in 1..Len(ps) |-> [page |-> ps[k].page, text |-> normalize(ps[k].text)]])
      bests == Arr([j \in 1..Len(qs) |->
                      IF normalize(qs[j]) = <<>> THEN NoBest ELSE BestPageFor(normPages, qs[j])])
      firstOf(j) == \A i \in 1..(j - 1) :
                      bests[i].page # bests[j].page \/ bests[i].quote # bests[j].quote
      kept == SelectSeq(Arr([j \in 1..Len(qs) |-> j]), LAMBDA j : bests[j].page # 0 /\ firstOf(j))
  IN Arr([i \in 1..Len(kept) |-> bests[kept[i]]])

\* encodeURIComponent: the characters it leaves alone, and the UTF-8 escapes of
\* the other characters of the texts
Unreserved == UpperSet \cup LowerSet \cup DigitSet \cup {"-", "_", ".", "!", "~", "*", "'", "(", ")"}
PercentCode ==
  (" " :> <<"%","2","0">>) @@ ("\n" :> <<"%","0","A">>) @@ ("\t" :> <<"%","0","9">>) @@ ("\"" :> <<"%","2","2">>)
  @@ ("#" :> <<"%","2","3">>) @@ ("$" :> <<"%","2","4">>) @@ ("%" :> <<"%","2","5">>) @@ ("&" :> <<"%","2","6">>)
  @@ ("+" :> <<"%","2","B">>) @@ ("," :> <<"%","2","C">>) @@ ("/" :> <<"%","2","F">>) @@ (":" :> <<"%","3","A">>)
  @@ (";" :> <<"%","3","B">>) @@ ("<" :> <<"%","3","C">>) @@ ("=" :> <<"%","3","D">>) @@ (">" :> <<"%","3","E">>)
  @@ ("?" :> <<"%","3","F">>) @@ ("@" :> <<"%","4","0">>) @@ ("[" :> <<"%","5","B">>)
  @@ ("]" :> <<"%","5","D">>) @@ ("^" :> <<"%","5","E">>) @@ ("{" :> <<"%","7","B">>)
  @@ ("|" :> <<"%","7","C">>) @@ ("}" :> <<"%","7","D">>)
  @@ ("LSQ" :> <<"%","E","2","%","8","0","%","9","8">>) @@ ("RSQ" :> <<"%","E","2","%","8","0","%","9","9">>) @@ ("LDQ" :> <<"%","E","2","%","8","0","%","9","C">>)
  @@ ("RDQ" :> <<"%","E","2","%","8","0","%","9","D">>) @@ ("ENDASH" :> <<"%","E","2","%","8","0","%","9","3">>) @@ ("EMDASH" :> <<"%","E","2","%","8","0","%","9","4">>)
  @@ ("BULLET" :> <<"%","E","2","%","8","0","%","A","2">>) @@ ("ELLIPSIS" :> <<"%","E","2","%","8","0","%","A","6">>)

RECURSIVE encodeURIComponent(_)
encodeURIComponent(s) ==
  IF Len(s) = 0 THEN <<>>
  ELSE (IF s[1] \in Unreserved THEN <<s[1]>> ELSE PercentCode[s[1]]) \o encodeURIComponent(Tail(s))

AnchorWords == 6

\* one element of found.map(...) in buildVerificationBlock
VerificationBullet(e, pdfUrl) ==
  LET shown == IF e.quote # <<>> THEN e.quote ELSE e.snippet
      anchorArg == encodeURIComponent(Join(Slice(SplitWs(shown), 0, AnchorWords)))
      link == pdfUrl \o <<"#","p","a","g","e","=">> \o NumText(e.page)
              \o (IF anchorArg # <<>> THEN <<"&","s","e","a","r","c","h","=">> \o anchorArg ELSE <<>>)
  IN <<"BULLET"," ","P","a","g","e"," ">> \o NumText(e.page) \o <<" ","EMDASH"," ","[","O","p","e","n"," ","p","a","g","e","]","(">> \o link \o <<")">>
     \o (IF shown # <<>> THEN <<" ","EMDASH"," ","LDQ">> \o shown \o <<"RDQ">> ELSE <<>>)

\* confidence is <<>> for null
buildVerificationBlock(fnd, pdfUrl, confidence) ==
  LET sorted == SortByPage(fnd)
      lines == Arr([i \in 1..Len(sorted) |-> VerificationBullet(sorted[i], pdfUrl)])
      conf == IF confidence # <<>> THEN <<"\n","BULLET"," ","C","o","n","f","i","d","e","n","c","e",":"," ">> \o confidence ELSE <<>>
  IN IF Len(fnd) = 0 /\ confidence = <<>> THEN <<>>
     ELSE <<"\n","\n","EMDASH","EMDASH"," ","V","e","r","i","f","i","c","a","t","i","o","n"," ","EMDASH","EMDASH","\n">> \o JoinLines(lines) \o conf \o <<"\n">>

\* -------------------------------------------------- inputs of the quote mapping
MaxChatPages == 2
MaxQuotes == 2

PDF_URL == <<"h","t","t","p",":","/","/","l","o","c","a","l","h","o","s","t",":","3","0","0","0","/","m","l","b","/","M","L","B","_","C","B","A","_","2","0","2","2",".","p","d","f">>

CVerbatim == <<"N","o"," ","p","l","a","y","e","r"," ","s","h","a","l","l"," ","b","e"," ","o","p","t","i","o","n","e","d"," ","m","o","r","e"," ","t","h","a","n"," ","t","h","r","e","e"," ","t","i","m","e","s">>
CParaphrase == <<"a"," ","p","l","a","y","e","r"," ","o","p","t","i","o","n","e","d"," ","f","o","u","r"," ","t","i","m","e","s"," ","m","u","s","t"," ","c","l","e","a","r"," ","w","a","i","v","e","r","s">>
CInvented == <<"R","o","o","k","i","e","s"," ","e","a","r","n"," ","b","o","n","u","s"," ","m","o","n","e","y",","," ","a","l","w","a","y","s">>
ChatQuotes == {CVerbatim, CParaphrase, CInvented}
ChatPageLists ==
  {Arr([k \in 1..Len(d) |-> [page |-> k, text |-> d[k]]]) : d \in SeqsUpTo({LExact, LFuzzy, LNone}, MaxChatPages)}
Confidences == {<<>>, <<"H","i","g","h">>}

InitChat ==
  /\ pc = "findPagesForQuotes"
  /\ pagesJSON \in ChatPageLists
  /\ quotes \in SeqsUpTo(ChatQuotes, MaxQuotes)
  /\ found = <<>>
  /\ verification = <<>>
  /\ pages = <<>>
  /\ articleRanges = <<>>
  /\ MainIdle
  /\ LocIdle
  /\ RestIdle

\* let found = findPagesForQuotes(pagesJSON, quotes)
FindPages ==
  /\ pc = "findPagesForQuotes"
  /\ found' = findPagesForQuotes(pagesJSON, quotes)
  /\ pc' = "buildVerificationBlock"
  /\ UNCHANGED <<pages, articleRanges, mainVars, locVars, restVars, pagesJSON, quotes, verification>>

\* const ver = buildVerificationBlock(found, PDF_URL, confidence)
BuildBlock ==
  /\ pc = "buildVerificationBlock"
  /\ \E confidence \in Confidences :
       verification' = buildVerificationBlock(found, PDF_URL, confidence)
  /\ pc' = "responded"
  /\ UNCHANGED <<pages, articleRanges, mainVars, locVars, restVars, pagesJSON, quotes, found>>

NextChat ==
  \/ FindPages
  \/ BuildBlock

SpecChat == InitChat /\ [][NextChat]_vars

\* -------------------------------------------------- the BM25 linker
\* The article-locked variant of lib/pdfIndex.js: no excerpts are parsed, the pages
\* are ranked by BM25 behind the rare-term gate and the bullets are kept inside the
\* Article range of the top page.
RankStop ==
  STOP \cup {<<"p","l","a","y","e","r">>, <<"c","l","u","b">>, <<"s","e","a","s","o","n">>, <<"c","o","n","t","r","a","c","t">>, <<"a","g","r","e","e","m","e","n","t">>, <<"t","i","m","e">>, <<"d","a","y","s">>,
             <<"y","e","a","r">>, <<"y","e","a","r","s">>, <<"l","i","s","t">>, <<"r","o","s","t","e","r">>, <<"m","a","j","o","r">>, <<"m","i","n","o","r">>}

RankMinTokenLen == 3
IsRankKept(c) == c \in LowerSet \cup DigitSet \cup {"'", "\"", "-", " "}
IsRankToken(w) == Len(w) > 0 /\ w \notin RankStop /\ Len(w) >= RankMinTokenLen

\* norm(s).replace(/[^a-z0-9'"\- ]/g, " ").split(/\s+/).filter(...)
rankTokenize(s) ==
  The({SelectSeq(SplitWs(Arr([i \in 1..Len(lower) |->
                                IF IsRankKept(lower[i]) THEN lower[i] ELSE " "])), IsRankToken) :
         lower \in {norm(s)}})

\* [...new Set(s)]: the first occurrence of each element, in order
RECURSIVE Uniq(_)
Uniq(s) ==
  IF Len(s) = 0 THEN <<>>
  ELSE The({IF s[Len(s)] \in Range(init) THEN init ELSE Append(init, s[Len(s)]) :
              init \in {Uniq(SubSeq(s, 1, Len(s) - 1))}})

PhraseMinLen == 6
PhraseMaxLen == 260
MaxPhrases == 6
NotQuote(c) == c # "\""

\* /"([^"]{6,260})"/ tried at offset i: the index of the closing quote, or 0
QuotedAt(s, i) ==
  The({IF /\ s[i + 1] = "\""
          /\ close <= Len(s)
          /\ close - (i + 2) >= PhraseMinLen
          /\ close - (i + 2) <= PhraseMaxLen
       THEN close ELSE 0 : close \in {RunEnd(s, i + 2, NotQuote) + 1}})

\* while ((m = rx.exec(s)) && out.length < 6) out.push(m[1].trim())
RECURSIVE pickQuotedFrom(_, _, _)
pickQuotedFrom(s, lastIndex, out) ==
  The({IF at = {} \/ Len(out) >= MaxPhrases THEN out
       ELSE The({pickQuotedFrom(s, close, Append(out, Trim(SubSeq(s, SetMin(at) + 2, close - 1)))) :
                   close \in {QuotedAt(s, SetMin(at))}}) :
         at \in {{i \in lastIndex..(Len(s) - 1) : QuotedAt(s, i) > 0}}})

pickQuoted(s) == pickQuotedFrom(s, 0, <<>>)

articleForPage(ranges, pageNum) == rangeForPage(ranges, pageNum)

\* one element of the index: [num, text, lower, toks, bigs, len]
PageIndexOf(p, toks) ==
  [num |-> p.num, text |-> p.text, lower |-> norm(p.text), toks |-> toks,
   bigs |-> bigrams(toks), len |-> Len(toks)]

buildPageIndex(ps) == Arr([i \in 1..Len(ps) |-> PageIndexOf(ps[i], IdxToks(ps[i].text))])

\* dfMap: the number of pages whose tokens (bigrams) hold the term
dfMap(idx, terms, isBigram) ==
  [t \in terms |-> Cardinality({i \in 1..Len(idx) :
                                  t \in Range(IF isBigram THEN idx[i].bigs ELSE idx[i].toks)})]

GatedCount == 2

\* [...uniqT].sort((a,b) => idf(df(b)) - idf(df(a))).slice(0,2): idf falls as df grows,
\* and the sort is stable
GatedTokens(uniqT, dfT) ==
  Arr([r \in 1..Min(GatedCount, Len(uniqT)) |->
         uniqT[CHOOSE i \in 1..Len(uniqT) :
                 Cardinality({j \in 1..Len(uniqT) :
                                \/ dfT[uniqT[j]] < dfT[uniqT[i]]
                                \/ (dfT[uniqT[j]] = dfT[uniqT[i]] /\ j < i)}) + 1 = r]])

\* let hasRare = false; for (const g of gated) if (g && p.lower.includes(g)) ...
HasRare(lower, gated) ==
  \E k \in 1..Len(gated) : gated[k] # <<>> /\ Includes(lower, gated[k])

IsSectionChar(c) == c \in LowerSet \cup DigitSet \cup {"(", ")", ".", "-"}
\* \b between the characters at index e and e + 1
BoundaryAfter(s, e) ==
  (e >= 1 /\ IsWordChar(s[e])) # (e + 1 <= Len(s) /\ IsWordChar(s[e + 1]))

\* /article\s+[ivxlc]+\b/.test(lower)
HasArticleWord(lower) ==
  \E i \in 0..(Len(lower) - 1) :
    /\ MatchAt(lower, i, <<"a","r","t","i","c","l","e">>)
    /\ The({/\ wsEnd >= i + Len(<<"a","r","t","i","c","l","e">>) + 1
            /\ The({romanEnd >= wsEnd + 1 /\ BoundaryAfter(lower, romanEnd) :
                      romanEnd \in {RunEnd(lower, wsEnd + 1, IsRoman)}}) :
              wsEnd \in {RunEnd(lower, i + Len(<<"a","r","t","i","c","l","e">>) + 1, IsWs)}})

\* /\bsection\s+[a-z0-9().-]+\b/.test(lower)
HasSectionWord(lower) ==
  \E i \in 0..(Len(lower) - 1) :
    /\ MatchAt(lower, i, <<"s","e","c","t","i","o","n">>)
    /\ BoundaryAfter(lower, i)
    /\ The({/\ wsEnd >= i + Len(<<"s","e","c","t","i","o","n">>) + 1
            /\ \E e \in (wsEnd + 1)..RunEnd(lower, wsEnd + 1, IsSectionChar) :
                 BoundaryAfter(lower, e) :
              wsEnd \in {RunEnd(lower, i + Len(<<"s","e","c","t","i","o","n">>) + 1, IsWs)}})

\* -1e9, the score of a page behind the gate; the scores are in units of 10^-4
NegInf == -1000000000
ArticleBonus == 8000
SectionBonus == 6000
KeepPercent == 45
MaxKept == 6

\* the score of page p in bm25Score
PageScore(p, gated, uniqT, uniqB, dfT, dfB, N, total) ==
  IF ~HasRare(p.lower, gated) THEN NegInf
  ELSE SumScores(uniqT, p.toks, dfT, p.len, N, total, 2)
       + SumScores(uniqB, p.bigs, dfB, p.len, N, total, 3)
       + (IF HasArticleWord(p.lower) THEN ArticleBonus ELSE 0)
       + (IF HasSectionWord(p.lower) THEN SectionBonus ELSE 0)

\* scores.sort((a,b) => b.score - a.score), a stable sort
SortByScore(scs) ==
  Arr([r \in 1..Len(scs) |->
         scs[CHOOSE i \in 1..Len(scs) :
                  Cardinality({j \in 1..Len(scs) :
                                 \/ scs[j].score > scs[i].score
                                 \/ (scs[j].score = scs[i].score /\ j < i)}) + 1 = r]])

\* s.score >= top * 0.45
AtLeastShare(score, top) ==
  IF score = NegInf THEN FALSE
  ELSE IF top = NegInf THEN TRUE
  ELSE score * 100 >= top * KeepPercent

\* scores.filter(s => s.score >= top*0.45).slice(0,6).filter(s => s.score > -1e8)
KeptScores(sorted) ==
  The({SelectSeq(Slice(SelectSeq(sorted, LAMBDA s : AtLeastShare(s.score, top)), 0, MaxKept),
                 LAMBDA s : s.score # NegInf) :
         top \in {IF Len(sorted) > 0 THEN sorted[1].score ELSE NegInf}})

ScoresOf(idx, gated, uniqT, uniqB, dfT, dfB, total) ==
  Arr([i \in 1..Len(idx) |->
         [num |-> idx[i].num,
          score |-> PageScore(idx[i], gated, uniqT, uniqB, dfT, dfB, Len(idx), total)]])

GatedScores(idx, uniqT, uniqB, dfT, dfB) ==
  ScoresOf(idx, GatedTokens(uniqT, dfT), Range(uniqT), uniqB, dfT, dfB,
           SumLen(Arr([i \in 1..Len(idx) |-> idx[i].toks])))

UniqScores(idx, uniqT, uniqB) ==
  GatedScores(idx, uniqT, uniqB, dfMap(idx, Range(uniqT), FALSE), dfMap(idx, uniqB, TRUE))

bm25Score(idx, queryTokens, queryBigrams) ==
  KeptScores(SortByScore(UniqScores(idx, Uniq(queryTokens), Range(queryBigrams))))

\* for (const needle of needles) { const i = L.indexOf(needle); if (i >= 0) return i; }
\* the index of the first needle that occurs, or -1
FirstFound(L, needles) ==
  The({IF ok = {} THEN -1 ELSE IndexOf(L, needles[SetMin(ok)]) :
         ok \in {{k \in 1..Len(needles) : Includes(L, needles[k])}}})

findBestHitPos(p, phrases, bigs, toks) ==
  The({IF at >= 0 THEN at ELSE Len(p.lower) \div 2 :
         at \in {FirstFound(p.lower, Arr([k \in 1..Len(phrases) |-> norm(phrases[k])]) \o bigs \o toks)}})

RankSnippetWords == 45
RankSnippetSpan == 40
RankSnippetLead == 20

\* the pairs <<center, n>>, for the lengths n of the page texts, where the double
\* n * (center / n) is below center
RoundsDown ==
  {<<3, 94>>, <<6, 94>>, <<12, 94>>, <<24, 94>>, <<31, 94>>, <<48, 94>>, <<51, 94>>, <<62, 94>>, <<49, 85>>, <<57, 85>>, <<61, 112>>}

\* Math.floor(text.length * ratio) with ratio = center / p.lower.length: text and
\* p.lower have the same length n, and in double arithmetic n * (center / n) falls
\* below center for the pairs of RoundsDown
ScaledMid(n, center) ==
  IF center >= n THEN n
  ELSE IF <<center, n>> \in RoundsDown THEN center - 1 ELSE Max(0, center)

\* words.length <= 45 ? slice.trim() : the 40 words from the middle less 20
MiddleWords(sliced, words) ==
  IF Len(words) <= RankSnippetWords THEN Trim(sliced)
  ELSE Trim(Join(Slice(words, Max(0, Len(words) \div 2 - RankSnippetLead),
                       Max(0, Len(words) \div 2 - RankSnippetLead) + RankSnippetSpan)))

SliceAround(text, mid) ==
  The({MiddleWords(sliced, SplitWs(sliced)) :
         sliced \in {Slice(text, Max(0, mid - SnippetBefore), Min(Len(text), mid + SnippetAfter))}})

rankSnippetAround(p, center) ==
  The({SliceAround(text, ScaledMid(Len(text), center)) : text \in {Trim(CollapseWs(p.text))}})

MaxBullets == 4

RankBullet(p, pos) == BulletLine(p.num, rankSnippetAround(p, pos), <<>>)

\* the loop over topPages
ComposedBullets(idx, topPages, phrases, bigs, tokens) ==
  Arr([k \in 1..Len(topPages) |->
         The({RankBullet(p, findBestHitPos(p, phrases, bigs, tokens)) :
                p \in {idx[SetMin({i \in 1..Len(idx) : idx[i].num = topPages[k].num})]}})])

\* winners.filter(w => w.num >= anchorRange.start && w.num <= anchorRange.end)
InRange(ws, rng) == SelectSeq(ws, LAMBDA w : w.num >= rng.start /\ w.num <= rng.end)

\* (winners anywhere in the document, whatever the anchor range)
topPagesAnywhere(ws, anch, rng) == Slice(IF Len(ws) > 0 THEN ws ELSE <<anch>>, 0, MaxBullets)

\* (inRange.length ? inRange : [anchor]).slice(0,4)
topPagesOf(ws, anch, rng) ==
  Slice(IF Len(InRange(ws, rng)) > 0 THEN InRange(ws, rng) ELSE <<anch>>, 0, MaxBullets)

\* articleForPage(articleRanges, anchor.num) || { start: anchor.num, end: anchor.num, title: "" }
anchorRangeOf(ranges, anch) ==
  The({IF IsNull(rng) THEN [start |-> anch.num, end |-> anch.num, title |-> <<>>] ELSE rng :
         rng \in {articleForPage(ranges, anch.num)}})

\* the Citation line and the injected text, from the composed bullets
RankInjected(answer, bs, rng) ==
  The({[bullets |-> bs,
        citation |-> CitationLine(rng.title, firstPage),
        text |-> Trim(Trim(StripCitation(answer)) \o <<"\n","\n">> \o CitationLine(rng.title, firstPage)
                      \o <<"\n","\n","EMDASH","EMDASH"," ","S","o","u","r","c","e"," ","t","e","x","t"," ","EMDASH","EMDASH","\n">> \o JoinLines(bs)),
        page |-> firstPage] : firstPage \in {PageNumberIn(bs[1])}})

\* the bullets, then the fallback bullet of idx[0] when there is none
RankComposed(answer, idx, ws, anch, rng, phrases, bigs, tokens) ==
  The({RankInjected(answer,
                    IF Len(bs) > 0 THEN bs ELSE <<RankBullet(idx[1], Len(idx[1].lower) \div 2)>>,
                    rng) :
         bs \in {ComposedBullets(idx, topPagesOf(ws, anch, rng), phrases, bigs, tokens)}})

RankQuery(question, answer) ==
  The({[tokens |-> tokens,
        bigs |-> bigrams(tokens),
        phrases |-> Slice(pickQuoted(answer) \o pickQuoted(question), 0, MaxPhrases)] :
         tokens \in {Uniq(rankTokenize(question) \o rankTokenize(answer))}})

\* -------------------------------------------------- inputs of the BM25 linker
MaxRankPages == 3

RIV == <<"A","R","T","I","C","L","E"," ","I","V","EMDASH","O","p","t","i","o","n","s","\n","N","o"," ","p","l","a","y","e","r"," ","s","h","a","l","l"," ","b","e"," ","o","p","t","i","o","n","e","d"," ","m","o","r","e"," ","t","h","a","n"," ","t","h","r","e","e"," ","t","i","m","e","s"," ","w","i","t","h","o","u","t"," ","c","l","e","a","r","i","n","g"," ","w","a","i","v","e","r","s",".">>
RCont == <<"A","n"," ","o","p","t","i","o","n","e","d"," ","p","i","t","c","h","e","r"," ","r","e","p","o","r","t","s"," ","w","i","t","h","i","n"," ","t","h","r","e","e"," ","d","a","y","s","."," ","S","e","c","t","i","o","n"," ","B","(","2",")"," ","c","o","v","e","r","s"," ","o","p","t","i","o","n","e","d"," ","c","a","t","c","h","e","r","s",".">>
RXIX == <<"A","R","T","I","C","L","E"," ","X","I","X","EMDASH","A","r","b","i","t","r","a","t","i","o","n","\n","S","a","l","a","r","y"," ","a","r","b","i","t","r","a","t","i","o","n"," ","h","e","a","r","i","n","g","s"," ","a","r","e"," ","h","e","l","d"," ","i","n"," ","F","e","b","r","u","a","r","y","."," ","A","n"," ","o","p","t","i","o","n","e","d"," ","p","i","t","c","h","e","r"," ","k","e","e","p","s"," ","e","l","i","g","i","b","i","l","i","t","y",".">>
RankTexts == {RIV, RCont, RXIX}

QWaivers == <<"W","a","i","v","e","r","s","?">>
QHowWaivers == <<"H","o","w"," ","o","f","t","e","n"," ","m","u","s","t"," ","w","a","i","v","e","r","s"," ","b","e"," ","c","l","e","a","r","e","d","?">>
QPitcher == <<"A","n"," ","o","p","t","i","o","n","e","d"," ","p","i","t","c","h","e","r","?">>
RankQuestions == {QWaivers, QHowWaivers, QPitcher}

RANone == <<>>
RAShort == <<"T","h","r","e","e"," ","t","i","m","e","s",".">>
RAQuoted == <<"T","h","e"," ","t","e","x","t"," ","s","a","y","s",":"," ","\"","o","p","t","i","o","n","e","d"," ","m","o","r","e"," ","t","h","a","n"," ","t","h","r","e","e"," ","t","i","m","e","s","\"",".","\n","C","i","t","a","t","i","o","n",":"," ","C","B","A",";"," ","P","a","g","e"," ","9">>
RankAnswers == {RANone, RAShort, RAQuoted}

InitRank ==
  /\ pc = "bm25Score"
  /\ pages \in {IndexPages(d) : d \in SeqsUpTo(RankTexts, MaxRankPages)}
  /\ questionText \in RankQuestions
  /\ answerText \in RankAnswers
  /\ articleRanges = <<>>
  /\ document = <<>>
  /\ source = "index"
  /\ pass = 1
  /\ items = <<>>
  /\ bullets = <<>>
  /\ foundHits = <<>>
  /\ scores = <<>>
  /\ citation = <<>>
  /\ result = NoResult
  /\ firstPass = NoPass
  /\ RankIdle
  /\ HandlerIdle
  /\ CacheIdle
  /\ SnipIdle
  /\ LocIdle
  /\ MoreIdle
  /\ ChatIdle

\* buildPageIndex, buildArticleRanges, the query features, bm25Score and the anchor;
\* idx[0] of an empty index is undefined and reading its num throws
RankPages ==
  /\ pc = "bm25Score"
  /\ articleRanges' = buildArticleRanges(pages)
  /\ \E q \in {RankQuery(questionText, answerText)} :
       \E ws \in {bm25Score(buildPageIndex(pages), q.tokens, q.bigs)} :
         /\ winners' = ws
         /\ IF Len(ws) > 0 THEN anchor' = ws[1] /\ pc' = "compose"
            ELSE IF Len(pages) > 0
                 THEN anchor' = [num |-> pages[1].num, score |-> NegInf] /\ pc' = "compose"
                 ELSE anchor' = anchor /\ pc' = "thrown"
  /\ UNCHANGED <<pages, mainVars, locVars, chatVars, handlerVars, cacheVars, snipVars, moreVars>>

\* the bullets of the top pages inside the anchor range, the Citation line and the
\* returned { text, page }
ComposeBullets ==
  /\ pc = "compose"
  /\ \E q \in {RankQuery(questionText, answerText)} :
       \E out \in {RankComposed(answerText, buildPageIndex(pages), winners, anchor,
                                anchorRangeOf(articleRanges, anchor), q.phrases, q.bigs, q.tokens)} :
         /\ bullets' = out.bullets
         /\ citation' = out.citation
         /\ result' = [text |-> out.text, page |-> out.page]
  /\ pc' = "returned"
  /\ UNCHANGED <<pages, articleRanges, document, source, questionText, answerText, pass, items,
                 foundHits, scores, firstPass, rankVars, locVars, chatVars, handlerVars, cacheVars, snipVars, moreVars>>

NextRank ==
  \/ RankPages
  \/ ComposeBullets

SpecRank == InitRank /\ [][NextRank]_vars

\* -------------------------------------------------- the chat handler around attachVerification
TimedOutText == <<"A","s","s","i","s","t","a","n","t"," ","e","r","r","o","r",":"," ","t","i","m","e","d"," ","o","u","t"," ","p","r","e","p","a","r","i","n","g"," ","t","h","e"," ","r","e","p","l","y",".">>
EmptyResponseText == <<"T","h","e"," ","a","s","s","i","s","t","a","n","t"," ","r","e","t","u","r","n","e","d"," ","a","n"," ","e","m","p","t","y"," ","r","e","s","p","o","n","s","e",".">>
ServerErrorText == <<"S","e","r","v","e","r"," ","e","r","r","o","r"," ","p","r","e","p","a","r","i","n","g"," ","t","h","e"," ","r","e","p","l","y","."," ","P","l","e","a","s","e"," ","t","r","y"," ","a","g","a","i","n",".">>

\* (a handler that answers a throw of the call with the error text)
FinalTextOrError(rawText, out) == IF out = NoResult THEN ServerErrorText ELSE out.text

\* let finalText = raw; try { finalText = (await attachVerification(...)).text } catch {}
\* out is what the call returned, NoResult when it threw
FinalText(rawText, out) == IF out = NoResult THEN rawText ELSE out.text

\* assistantMsg?.content?.[0]?.text?.value?.trim() || "The assistant returned an empty response."
RawOf(value) == IF Trim(value) = <<>> THEN EmptyResponseText ELSE Trim(value)

HandlerDocuments == {<<>>, <<TIV>>, <<TIV, TXIX>>}
RunStatuses == {"completed", "failed", "in_progress"}
AssistantTexts == {<<>>, <<" "," ">> \o ANone \o <<"\n">>, ABefore}

InitHandler ==
  /\ pc = "poll"
  /\ status \in RunStatuses
  /\ assistantMsg \in AssistantTexts
  /\ document \in HandlerDocuments
  /\ source \in Sources
  /\ questionText = QOptions
  /\ raw = <<>>
  /\ finalText = <<>>
  /\ res = NoResponse
  /\ answerText = <<>>
  /\ pass = 1
  /\ pages = <<>>
  /\ articleRanges = <<>>
  /\ items = <<>>
  /\ bullets = <<>>
  /\ foundHits = <<>>
  /\ scores = <<>>
  /\ citation = <<>>
  /\ result = NoResult
  /\ firstPass = NoPass
  /\ RankIdle
  /\ CacheIdle
  /\ SnipIdle
  /\ LocIdle
  /\ MoreIdle
  /\ ChatIdle

\* if (status !== "completed") return res.status(200).json({ result: "Assistant error: ..." })
PollDone ==
  /\ pc = "poll"
  /\ IF status = "completed"
     THEN pc' = "read" /\ res' = res
     ELSE pc' = "responded" /\ res' = [code |-> 200, result |-> TimedOutText]
  /\ UNCHANGED <<pages, articleRanges, mainVars, locVars, chatVars, rankVars, cacheVars, snipVars, moreVars,
                 status, assistantMsg, raw, finalText>>

\* the messages are read and raw is set; attachVerification(raw, lastUser, ...) is called
ReadAnswer ==
  /\ pc = "read"
  /\ raw' = RawOf(assistantMsg)
  /\ finalText' = RawOf(assistantMsg)
  /\ answerText' = RawOf(assistantMsg)
  /\ pc' = "loadTextIndex"
  /\ UNCHANGED <<pages, articleRanges, document, source, questionText, pass, items, bullets,
                 foundHits, scores, citation, result, firstPass, locVars, chatVars, rankVars, cacheVars, snipVars, moreVars,
                 status, assistantMsg, res>>

\* ofetch throws while the messages are read: the outer catch responds
ReadFails ==
  /\ pc = "read"
  /\ pc' = "responded"
  /\ res' = [code |-> 200, result |-> ServerErrorText]
  /\ UNCHANGED <<pages, articleRanges, mainVars, locVars, chatVars, rankVars, cacheVars, snipVars, moreVars,
                 status, assistantMsg, raw, finalText>>

\* the call returned or threw: return res.status(200).json({ result: finalText })
Respond ==
  /\ pc \in {"returned", "thrown"}
  /\ finalText' = FinalText(raw, result)
  /\ res' = [code |-> 200, result |-> FinalText(raw, result)]
  /\ pc' = "responded"
  /\ UNCHANGED <<pages, articleRanges, mainVars, locVars, chatVars, rankVars, cacheVars, snipVars, moreVars,
                 status, assistantMsg, raw>>

NextHandler ==
  \/ PollDone
  \/ ReadAnswer
  \/ ReadFails
  \/ LoadTextIndex
  \/ LoadPdfText
  \/ MapQuotes
  \/ Fallback
  \/ Inject
  \/ Respond

SpecHandler == InitHandler /\ [][NextHandler]_vars

\* -------------------------------------------------- the page cache of lib/pdfIndex.js
\* text.toLowerCase().replace(curly quotes).replace(/[^\p{L}\p{N}\s"']/gu, ' ')
\*     .replace(/\s+/g, ' ').trim()
NormPage(text) == Trim(CollapseWs(Arr([i \in 1..Len(text) |-> ChatNormChar(text[i])])))

\* (a population that pushes onto the arrays the module holds)
PushedOnto(cur, loaded) == IF cur = Null THEN loaded ELSE cur \o loaded

\* _normPages = norm; _rawPages = raw;  (cur is the value held before)
Assigned(cur, loaded) == loaded

NumRequests == 2
MaxCachePages == 2
MaxReads == 2

Requests == 1..NumRequests
CacheTexts == {<<"A","r","t","i","c","l","e"," ","I","V","EMDASH","LDQ","O","p","t","i","o","n","s","RDQ">>, <<"N","o"," ","p","l","a","y","e","r"," "," ","s","h","a","l","l"," ","b","e"," ","o","p","t","i","o","n","e","d",".">>}
Pdfs == SeqsUpTo(CacheTexts, MaxCachePages)

\* a request: where it stands, whether its guard found the cache absent, the
\* norm and raw of its ensurePagesLoaded, and what it read from the cache
NewRequest == [pc |-> "ensurePagesLoaded", cold |-> FALSE, norm |-> <<>>, raw |-> <<>>, seen |-> <<>>]

InitCache ==
  /\ pc = "serving"
  /\ pdf \in Pdfs
  /\ _normPages = Null
  /\ _rawPages = Null
  /\ req = [r \in Requests |-> NewRequest]
  /\ populations = 0
  /\ pages = <<>>
  /\ articleRanges = <<>>
  /\ MainIdle
  /\ LocIdle
  /\ MoreIdle
  /\ ChatIdle
  /\ RankIdle
  /\ HandlerIdle
  /\ SnipIdle

CacheRest == <<pc, pages, articleRanges, mainVars, locVars, chatVars, rankVars, handlerVars, snipVars, moreVars, pdf>>

\* if (_normPages && _rawPages) return;   ([] is truthy)
Guard(r) ==
  /\ req[r].pc = "ensurePagesLoaded"
  /\ IF _normPages # Null /\ _rawPages # Null
     THEN req' = [req EXCEPT ![r].pc = "loaded"]
     ELSE req' = [req EXCEPT ![r].pc = "loadPdfBytes", ![r].cold = TRUE]
  /\ UNCHANGED <<CacheRest, _normPages, _rawPages, populations>>

\* await loadPdfBytes(...), await getPdfjs(): the bytes arrive, or the fetch throws
LoadPdfBytes(r) ==
  /\ req[r].pc = "loadPdfBytes"
  /\ \E ok \in BOOLEAN :
       req' = [req EXCEPT ![r].pc = IF ok THEN "getDocument" ELSE "thrown"]
  /\ UNCHANGED <<CacheRest, _normPages, _rawPages, populations>>

\* the two assignments that end ensurePagesLoaded, run without an await between them
Populate(r, normTexts, rawTexts) ==
  /\ _normPages' = Assigned(_normPages, normTexts)
  /\ _rawPages' = Assigned(_rawPages, rawTexts)
  /\ populations' = populations + 1
  /\ req' = [req EXCEPT ![r].pc = "loaded", ![r].norm = normTexts, ![r].raw = rawTexts]

\* await getDocument({ data }).promise; a document of no page is assigned at once
GetDocument(r) ==
  /\ req[r].pc = "getDocument"
  /\ IF Len(pdf) = 0
     THEN Populate(r, <<>>, <<>>)
     ELSE /\ req' = [req EXCEPT ![r].pc = "getPage"]
          /\ UNCHANGED <<_normPages, _rawPages, populations>>
  /\ UNCHANGED CacheRest

\* (a loop that pushes each page onto the arrays the module holds as it goes)
GetPageIntoCache(r) ==
  /\ req[r].pc = "getPage"
  /\ \E i \in {Len(req[r].raw) + 1} :
       \E normTexts \in {Append(req[r].norm, NormPage(pdf[i]))} :
         \E rawTexts \in {Append(req[r].raw, pdf[i])} :
           /\ _normPages' = normTexts
           /\ _rawPages' = rawTexts
           /\ populations' = IF i = Len(pdf) THEN populations + 1 ELSE populations
           /\ req' = [req EXCEPT ![r].pc = IF i = Len(pdf) THEN "loaded" ELSE "getPage",
                                  ![r].norm = normTexts, ![r].raw = rawTexts]
  /\ UNCHANGED CacheRest

\* one turn of the loop: await doc.getPage(i), await page.getTextContent(), the two
\* pushes; after the last page the arrays are assigned
GetPage(r) ==
  /\ req[r].pc = "getPage"
  /\ \E i \in {Len(req[r].raw) + 1} :
       \E normTexts \in {Append(req[r].norm, NormPage(pdf[i]))} :
         \E rawTexts \in {Append(req[r].raw, pdf[i])} :
           IF i = Len(pdf)
           THEN Populate(r, normTexts, rawTexts)
           ELSE /\ req' = [req EXCEPT ![r].norm = normTexts, ![r].raw = rawTexts]
                /\ UNCHANGED <<_normPages, _rawPages, populations>>
  /\ UNCHANGED CacheRest

\* findBestPageFromQuote after its await ensurePagesLoaded: the loop over _normPages
\* and the reads of _rawPages, one call per quote
ReadPages(r) ==
  /\ req[r].pc = "loaded"
  /\ \E seen \in {Append(req[r].seen, [norm |-> _normPages, raw |-> _rawPages])} :
       req' = [req EXCEPT ![r].seen = seen,
                          ![r].pc = IF Len(seen) = MaxReads THEN "done" ELSE "loaded"]
  /\ UNCHANGED <<CacheRest, _normPages, _rawPages, populations>>

NextCache ==
  \E r \in Requests :
    \/ Guard(r)
    \/ LoadPdfBytes(r)
    \/ GetDocument(r)
    \/ GetPage(r)
    \/ ReadPages(r)

SpecCache == InitCache /\ [][NextCache]_vars

\* -------------------------------------------------- the snippet of a hit
SShort == <<"N","o"," ","p","l","a","y","e","r"," ","s","h","a","l","l"," ","b","e"," ","o","p","t","i","o","n","e","d"," ","m","o","r","e"," ","t","h","a","n"," ","t","h","r","e","e"," ","t","i","m","e","s",".">>
SProse == <<"N","o"," ","p","l","a","y","e","r"," ","s","h","a","l","l"," ","b","e"," ","s","e","n","t"," ","t","o"," ","t","h","e"," ","m","i","n","o","r"," ","l","e","a","g","u","e","s"," ","o","n"," ","o","p","t","i","o","n"," ","m","o","r","e"," ","t","h","a","n"," ","t","h","r","e","e"," ","t","i","m","e","s"," ","i","n"," ","h","i","s"," ","c","a","r","e","e","r",","," ","a","n","d"," ","a"," ","c","l","u","b"," ","t","h","a","t"," ","d","o","e","s"," ","s","o"," ","m","u","s","t"," ","f","i","r","s","t"," ","a","s","k"," ","f","o","r"," ","a","n","d"," ","c","l","e","a","r"," ","w","a","i","v","e","r","s"," ","o","n"," ","h","i","m",","," ","a","s"," ","s","e","t"," ","o","u","t"," ","i","n"," ","t","h","i","s"," ","r","u","l","e"," ","a","n","d"," ","i","n"," ","t","h","e"," ","r","u","l","e","s"," ","o","f"," ","t","h","e"," ","O","f","f","i","c","e"," ","o","f"," ","t","h","e"," ","C","o","m","m","i","s","s","i","o","n","e","r",".">>
SLong == <<"N","o","t","w","i","t","h","s","t","a","n","d","i","n","g"," ","a","r","b","i","t","r","a","t","i","o","n"," ","e","l","i","g","i","b","i","l","i","t","y",","," ","c","h","a","m","p","i","o","n","s","h","i","p"," ","q","u","a","l","i","f","i","c","a","t","i","o","n"," ","r","e","q","u","i","r","e","m","e","n","t","s",","," ","s","u","p","p","l","e","m","e","n","t","a","l"," ","c","o","m","p","e","n","s","a","t","i","o","n"," ","c","o","m","p","u","t","a","t","i","o","n","s",","," ","p","o","s","t","s","e","a","s","o","n"," ","p","a","r","t","i","c","i","p","a","t","i","o","n"," ","p","e","r","c","e","n","t","a","g","e","s",","," ","i","n","t","e","r","n","a","t","i","o","n","a","l"," ","t","o","u","r","n","a","m","e","n","t","s",","," ","r","e","h","a","b","i","l","i","t","a","t","i","o","n"," ","a","s","s","i","g","n","m","e","n","t","s",","," ","d","i","s","q","u","a","l","i","f","i","e","d"," ","r","e","i","n","s","t","a","t","e","m","e","n","t"," ","a","p","p","l","i","c","a","t","i","o","n","s",","," ","u","n","c","o","n","d","i","t","i","o","n","a","l"," ","r","e","l","e","a","s","e"," ","n","o","t","i","f","i","c","a","t","i","o","n","s",","," ","r","e","i","m","b","u","r","s","e","m","e","n","t"," ","o","b","l","i","g","a","t","i","o","n","s",","," ","t","r","a","n","s","p","o","r","t","a","t","i","o","n"," ","a","c","c","o","m","m","o","d","a","t","i","o","n","s",","," ","a","d","m","i","n","i","s","t","r","a","t","i","v","e"," ","d","e","t","e","r","m","i","n","a","t","i","o","n","s",","," ","d","i","s","c","i","p","l","i","n","a","r","y"," ","i","n","v","e","s","t","i","g","a","t","i","o","n","s",".">>
SnipTexts == {SShort, SProse, SLong}

SnipQuotes ==
  {<<"N","o"," ","p","l","a","y","e","r"," ","s","h","a","l","l"," ","b","e">>, <<"t","h","r","e","e"," ","t","i","m","e","s">>, <<"t","h","e"," ","O","f","f","i","c","e"," ","o","f"," ","t","h","e"," ","C","o","m","m","i","s","s","i","o","n","e","r",".">>,
   <<"N","o","t","w","i","t","h","s","t","a","n","d","i","n","g"," ","a","r","b","i","t","r","a","t","i","o","n">>, <<"d","i","s","c","i","p","l","i","n","a","r","y"," ","i","n","v","e","s","t","i","g","a","t","i","o","n","s",".">>}

InitSnippet ==
  /\ pc = "findQuoteOnPages"
  /\ snipPage \in SnipTexts
  /\ snipQuote = <<>>
  /\ snipIdx = -1
  /\ snipFrom = "none"
  /\ snip = <<>>
  /\ pages = <<>>
  /\ articleRanges = <<>>
  /\ MainIdle
  /\ LocIdle
  /\ MoreIdle
  /\ ChatIdle
  /\ RankIdle
  /\ HandlerIdle
  /\ CacheIdle

SnipRest == <<pages, articleRanges, mainVars, locVars, chatVars, rankVars, handlerVars, cacheVars, moreVars>>

\* pass 1 of findQuoteOnPages on the page, for a quote of the answer: const i = exactIndexOf(p.text, quote);
\* if (i >= 0) return { page: p.num, idx: i, text: p.text }
ExactHit ==
  /\ pc = "findQuoteOnPages"
  /\ \E q \in SnipQuotes :
       \E i \in {exactIndexOf(snipPage, q)} :
         /\ i >= 0
         /\ snipQuote' = q
         /\ snipIdx' = i
  /\ snipFrom' = "exact"
  /\ pc' = "snippetAround"
  /\ UNCHANGED <<SnipRest, snipPage, snip>>

\* the other centres: the offset of a fuzzy hit (pass 2) or the middle of the page
\* (the fallback), any offset of the normalized text
OtherHit ==
  /\ pc = "findQuoteOnPages"
  /\ snipIdx' \in 0..(Len(norm(snipPage)) - 1)
  /\ snipFrom' = "offset"
  /\ pc' = "snippetAround"
  /\ UNCHANGED <<SnipRest, snipPage, snipQuote, snip>>

\* const snip = snippetAround(hit.text, hit.idx)
Snip ==
  /\ pc = "snippetAround"
  /\ snip' = snippetAround(snipPage, snipIdx)
  /\ pc' = "snipped"
  /\ UNCHANGED <<SnipRest, snipPage, snipQuote, snipIdx, snipFrom>>

NextSnippet ==
  \/ ExactHit
  \/ OtherHit
  \/ Snip

SpecSnippet == InitSnippet /\ [][NextSnippet]_vars

\* -------------------------------------------------- the excerpts block under format drift
MaxEntries == 5

EntryLabels == <<<<"A","r","t","i","c","l","e"," ","I","V">>, <<"A","r","t","i","c","l","e"," ","X","I","X">>, <<"A","r","t","i","c","l","e"," ","V","I","(","A",")">>, <<"A","r","t","i","c","l","e"," ","X","X">>, <<"A","r","t","i","c","l","e"," ","X","X","I","I","I">>>>
EntryQuotes ==
  <<<<"N","o"," ","p","l","a","y","e","r"," ","s","h","a","l","l"," ","b","e"," ","o","p","t","i","o","n","e","d"," ","m","o","r","e"," ","t","h","a","n"," ","t","h","r","e","e"," ","t","i","m","e","s">>,
    <<"m","a","y"," ","b","e"," ","o","p","t","i","o","n","e","d"," ","i","n"," ","n","o","t"," ","m","o","r","e"," ","t","h","a","n"," ","t","h","r","e","e"," ","c","h","a","m","p","i","o","n","s","h","i","p"," ","s","e","a","s","o","n","s">>,
    <<"s","a","l","a","r","y"," ","a","r","b","i","t","r","a","t","i","o","n">>,
    <<"f","r","e","e"," ","a","g","e","n","c","y"," ","a","f","t","e","r"," ","s","i","x"," ","y","e","a","r","s">>,
    <<"c","o","m","p","e","t","i","t","i","v","e"," ","b","a","l","a","n","c","e"," ","t","a","x">>>>
EntryHint == <<" ","|"," ","P","A","G","E",":"," ","2","3">>

\* an entry is numbered or not, and carries a page hint or not
EntryShapes == [numbered : BOOLEAN, hint : BOOLEAN]

\* entry k of the block as the assistant writes it
EntryText(k, shape) ==
  (IF shape.numbered THEN NumText(k) \o <<")"," ">> ELSE <<>>)
  \o <<"A","R","T","I","C","L","E",":"," ">> \o EntryLabels[k] \o (IF shape.hint THEN EntryHint ELSE <<>>)
  \o <<"\n"," "," "," ","Q","U","O","T","E",":"," ","\"">> \o EntryQuotes[k] \o <<"\"","\n">>

RECURSIVE EntriesText(_, _)
EntriesText(shapes, k) ==
  IF k > Len(shapes) THEN <<>>
  ELSE EntryText(k, shapes[k]) \o EntriesText(shapes, k + 1)

AnswerOf(shapes) == <<"S","u","m","m","a","r","y",":"," ","s","e","e"," ","t","h","e"," ","e","x","c","e","r","p","t","s",".","\n","L","E","G","A","L","_","E","X","C","E","R","P","T","S",":","\n">> \o EntriesText(shapes, 1)

InitParse ==
  /\ pc = "parseLegalExcerpts"
  /\ entries \in SeqsUpTo(EntryShapes, MaxEntries)
  /\ excerptsAnswer = AnswerOf(entries)
  /\ parsed = <<>>
  /\ ParseOthersIdle

\* const items = parseLegalExcerpts(answerText)
ParseExcerpts ==
  /\ pc = "parseLegalExcerpts"
  /\ parsed' = parseLegalExcerpts(excerptsAnswer)
  /\ pc' = "parsed"
  /\ UNCHANGED <<ParseOthers, entries, excerptsAnswer>>

NextParse ==
  \/ ParseExcerpts

SpecParse == InitParse /\ [][NextParse]_vars

\* -------------------------------------------------- the line scanner linkifyCitations
\* page_map.json: keys "XXIII.B.3 (CBT — Base Tax Rates)", values the start pages
PAGE_MAP ==
  (<<"I","V">> :> 12) @@ (<<"V","I",".","E",".","1","(","b",")"," ","(","S","a","l","a","r","y"," ","A","r","b","i","t","r","a","t","i","o","n"," ","EMDASH"," ","C","r","i","t","e","r","i","a",")">> :> 40)
  @@ (<<"X","X","I","I","I",".","B",".","3"," ","(","C","B","T"," ","EMDASH"," ","B","a","s","e"," ","T","a","x"," ","R","a","t","e","s",")">> :> 118)

\* s.replace(/\s+/g, "").trim()
NotWs(c) == ~IsWs(c)
normalizeKey(s) == SelectSeq(s, NotWs)

\* rawKey.split(" (")[0].trim()
CompactKey(rawKey) ==
  LET at == IndexOf(rawKey, <<" ","(">>)
  IN Trim(IF at < 0 THEN rawKey ELSE Slice(rawKey, 0, at))

\* loadPageMap: KEY_INDEX.set(normalizeKey(compact), PAGE_MAP[rawKey]) for each key
LoadedIndex ==
  [k \in {normalizeKey(CompactKey(rawKey)) : rawKey \in DOMAIN PAGE_MAP} |->
     PAGE_MAP[CHOOSE rawKey \in DOMAIN PAGE_MAP : normalizeKey(CompactKey(rawKey)) = k]]

IsRomanDigit(c) == LowerChar(c) \in {"i", "v", "x", "l", "c", "d", "m"}
IsAlnum(c) == c \in UpperSet \cup LowerSet \cup DigitSet
AllIn(s, S) == Len(s) > 0 /\ \A i \in 1..Len(s) : s[i] \in S

\* while (rest.startsWith("(")) { seg = rest.match(/^\(([A-Za-z0-9]+)\)/) ... }
RECURSIVE Segments(_)
Segments(rest) ==
  IF Len(rest) = 0 \/ rest[1] # "(" THEN <<>>
  ELSE The({IF e < 2 \/ e + 1 > Len(rest) \/ rest[e + 1] # ")" THEN <<>>
            ELSE <<SubSeq(rest, 2, e)>> \o Segments(SubSeq(rest, e + 2, Len(rest))) :
              e \in {RunEnd(rest, 2, IsAlnum)}})

\* roman.alnum[1].alnum[2]...
RECURSIVE DotJoin(_)
DotJoin(parts) ==
  IF Len(parts) = 0 THEN <<>>
  ELSE IF Len(parts) = 1 THEN parts[1]
  ELSE parts[1] \o <<".">> \o DotJoin(Tail(parts))

\* [...new Set(list)]
RECURSIVE Distinct(_)
Distinct(list) ==
  IF Len(list) = 0 THEN <<>>
  ELSE The({IF list[Len(list)] \in Range(front) THEN front ELSE Append(front, list[Len(list)]) :
              front \in {Distinct(SubSeq(list, 1, Len(list) - 1))}})

\* the candidates built from the roman numeral and the segments
CandidatesOf(roman, segs) ==
  LET alnumIdx == SelectSeq(Arr([k \in 1..Len(segs) |-> k]),
                            LAMBDA k : AllIn(segs[k], DigitSet) \/ AllIn(segs[k], UpperSet))
      alnum == Arr([k \in 1..Len(alnumIdx) |-> segs[alnumIdx[k]]])
      lowerIdx == {k \in 1..Len(segs) : AllIn(segs[k], LowerSet)}
      base == DotJoin(<<roman>> \o alnum)
      specific ==
        IF Len(alnum) > 0
        THEN (IF lowerIdx # {} THEN <<base \o <<"(">> \o segs[SetMax(lowerIdx)] \o <<")">>>> ELSE <<>>)
             \o <<base>>
        ELSE <<roman>>
      general ==
        IF Len(alnum) >= 2
        THEN Arr([k \in 1..(Len(alnum) - 1) |-> DotJoin(<<roman>> \o SubSeq(alnum, 1, Len(alnum) - k))])
        ELSE <<>>
      both == specific \o general
      all == both \o (IF roman \in Range(both) THEN <<>> ELSE <<roman>>)
  IN Distinct(Arr([k \in 1..Len(all) |-> normalizeKey(all[k])]))

\* articleLabelToCandidates: "Article VI(E)(1)(b)" -> VI.E.1(b), VI.E.1, VI.E, VI
articleLabelToCandidates(articleLabel) ==
  LET t == Trim(articleLabel)
      wsEnd == RunEnd(t, Len(<<"a","r","t","i","c","l","e">>) + 1, IsWs)
      stripped == IF MatchAtCI(t, 0, <<"a","r","t","i","c","l","e">>) /\ wsEnd > Len(<<"a","r","t","i","c","l","e">>)
                  THEN SubSeq(t, wsEnd + 1, Len(t)) ELSE t
      s == normalizeKey(stripped)
      romanEnd == RunEnd(s, 1, IsRomanDigit)
  IN IF romanEnd < 1 THEN <<>>
     ELSE CandidatesOf(toUpperCase(SubSeq(s, 1, romanEnd)), Segments(SubSeq(s, romanEnd + 1, Len(s))))

\* findStartPageForLabel: the page of the first candidate KEY_INDEX has, 0 for null
StartPageIn(index, articleLabel) ==
  LET cands == articleLabelToCandidates(articleLabel)
      has == {k \in 1..Len(cands) : cands[k] \in DOMAIN index}
  IN IF has = {} THEN 0 ELSE index[cands[SetMin(has)]]

PdfLink(startPage) == <<"/","m","l","b","/","M","L","B","_","C","B","A","_","2","0","2","2",".","p","d","f","#","p","a","g","e","=">> \o NumText(startPage)
OpenPageAnchor(startPage) ==
  <<"<","a"," ","h","r","e","f","=","\"">> \o PdfLink(startPage) \o <<"\""," ","t","a","r","g","e","t","=","\"","_","b","l","a","n","k","\""," ","r","e","l","=","\"","n","o","o","p","e","n","e","r"," ","n","o","r","e","f","e","r","r","e","r","\"",">","O","p","e","n"," ","p","a","g","e","<","/","a",">">>

\* /; Page\s+\d+\s+—\s+Open page/i tried at offset i: the offset after the match, or -1
PagePartEndAt(line, i) ==
  LET ws1 == RunEnd(line, i + Len(<<";"," ","p","a","g","e">>) + 1, IsWs)
      ds == RunEnd(line, ws1 + 1, IsDigit)
      ws2 == RunEnd(line, ds + 1, IsWs)
      ws3 == RunEnd(line, ws2 + 2, IsWs)
  IN IF /\ MatchAtCI(line, i, <<";"," ","p","a","g","e">>)
        /\ ws1 > i + Len(<<";"," ","p","a","g","e">>)
        /\ ds > ws1
        /\ ws2 > ds
        /\ ws2 + 1 <= Len(line) /\ line[ws2 + 1] = "EMDASH"
        /\ ws3 > ws2 + 1
        /\ MatchAtCI(line, ws3, <<"o","p","e","n"," ","p","a","g","e">>)
     THEN ws3 + Len(<<"o","p","e","n"," ","p","a","g","e">>) ELSE -1

\* rewriteLineWithLink
rewriteLineIn(index, line, articleLabel) ==
  LET startPage == StartPageIn(index, articleLabel)
      at == {i \in 0..(Len(line) - 1) : PagePartEndAt(line, i) >= 0}
  IN IF startPage = 0 \/ at = {} THEN line
     ELSE Slice(line, 0, SetMin(at))
          \o <<";"," ","P","a","g","e"," ">> \o NumText(startPage) \o <<" ","EMDASH"," ">> \o OpenPageAnchor(startPage)
          \o Slice(line, PagePartEndAt(line, SetMin(at)), Len(line))

\* rewritePageLine
rewritePageLineIn(index, pageLine, articleLabel) ==
  LET startPage == StartPageIn(index, articleLabel)
  IN IF startPage = 0 THEN pageLine
     ELSE <<"P","A","G","E",":"," ">> \o NumText(startPage) \o <<" ","EMDASH"," ">> \o OpenPageAnchor(startPage)

\* String(raw).split(/\r?\n/)
SplitLines(s) ==
  LET nl == SelectSeq(Arr([i \in 1..Len(s) |-> i]), LAMBDA i : s[i] = "\n")
      m == Len(nl)
  IN Arr([k \in 1..(m + 1) |->
            SubSeq(s, IF k = 1 THEN 1 ELSE nl[k - 1] + 1, IF k = m + 1 THEN Len(s) ELSE nl[k] - 1)])

\* /^\s*LEGAL_EXCERPTS\s*:?\s*$/i
IsHeaderLine(line) ==
  LET a == RunEnd(line, 1, IsWs)
      b == RunEnd(line, a + Len(<<"l","e","g","a","l","_","e","x","c","e","r","p","t","s">>) + 1, IsWs)
      c == IF b + 1 <= Len(line) /\ line[b + 1] = ":" THEN b + 1 ELSE b
  IN MatchAtCI(line, a, <<"l","e","g","a","l","_","e","x","c","e","r","p","t","s">>) /\ RunEnd(line, c + 1, IsWs) = Len(line)

\* the pipes after index g that \s*\|\s*PAGE: matches
HintPipes(line, g) ==
  {p \in (g + 1)..Len(line) : line[p] = "|" /\ MatchAtCI(line, RunEnd(line, p + 1, IsWs), <<"p","a","g","e",":">>)}

\* line.match(/^\s*ARTICLE:\s*(.+?)\s*\|\s*PAGE:\s*.*$/i) || line.match(/^\s*ARTICLE:\s*(.+?)\s*$/i):
\* [ok, label], label the trimmed group
ArticleLineOf(line) ==
  LET a == RunEnd(line, 1, IsWs)
      r0 == a + Len(<<"a","r","t","i","c","l","e",":">>)
      w == RunEnd(line, r0 + 1, IsWs)
      g == IF w < Len(line) THEN w + 1 ELSE w
      pipes == HintPipes(line, g)
  IN IF ~MatchAtCI(line, a, <<"a","r","t","i","c","l","e",":">>) \/ r0 >= Len(line) THEN [ok |-> FALSE, label |-> <<>>]
     ELSE IF pipes # {} THEN [ok |-> TRUE, label |-> Trim(SubSeq(line, g, SetMin(pipes) - 1))]
     ELSE [ok |-> TRUE, label |-> Trim(SubSeq(line, r0 + 1, Len(line)))]

\* /^\s*PAGE:\s*/i.test(line)
IsPageLine(line) == MatchAtCI(line, RunEnd(line, 1, IsWs), <<"p","a","g","e",":">>)

NotSemicolon(c) == c # ";"

\* /CBA\s*\(.*?\),\s*Article\s+([^;]+);/i from the "(" at index o: the trimmed
\* group, or <<>> when it does not match
CitationGroupFrom(line, o) ==
  LET tails == {j \in (o + 1)..(Len(line) - 1) :
                  /\ line[j] = ")" /\ line[j + 1] = ","
                  /\ \E a \in {RunEnd(line, j + 2, IsWs)} :
                       /\ MatchAtCI(line, a, <<"a","r","t","i","c","l","e">>)
                       /\ \E w \in {RunEnd(line, a + Len(<<"a","r","t","i","c","l","e">>) + 1, IsWs)} :
                            \E e \in {RunEnd(line, w + 1, NotSemicolon)} :
                              /\ w > a + Len(<<"a","r","t","i","c","l","e">>)
                              /\ e < Len(line)
                              /\ (e > w \/ w > a + Len(<<"a","r","t","i","c","l","e">>) + 1)}
      j == SetMin(tails)
      a == RunEnd(line, j + 2, IsWs)
      w == RunEnd(line, a + Len(<<"a","r","t","i","c","l","e">>) + 1, IsWs)
      e == RunEnd(line, w + 1, NotSemicolon)
  IN IF tails = {} THEN [ok |-> FALSE, label |-> <<>>]
     ELSE [ok |-> TRUE, label |-> Trim(SubSeq(line, w + 1, e))]

\* line.match(/CBA\s*\(.*?\),\s*Article\s+([^;]+);/i): [ok, label], label citMatch[1].trim()
CitationOf(line) ==
  LET at == {i \in 0..(Len(line) - 1) :
               /\ MatchAtCI(line, i, <<"c","b","a">>)
               /\ \E o \in {RunEnd(line, i + Len(<<"c","b","a">>) + 1, IsWs) + 1} :
                    o <= Len(line) /\ line[o] = "(" /\ CitationGroupFrom(line, o).ok}
      i == SetMin(at)
  IN IF at = {} THEN [ok |-> FALSE, label |-> <<>>]
     ELSE CitationGroupFrom(line, RunEnd(line, i + Len(<<"c","b","a">>) + 1, IsWs) + 1)

\* the loop over the lines from line i: inLegal, lastArticleLabel (<<>> for null)
\* and the lines pushed
RECURSIVE ScanLines(_, _, _, _, _)
ScanLines(index, lines, i, inLegal, lastArticleLabel) ==
  IF i > Len(lines) THEN <<>>
  ELSE IF IsHeaderLine(lines[i])
  THEN <<lines[i]>> \o ScanLines(index, lines, i + 1, TRUE, <<>>)
  ELSE IF inLegal
  THEN The({IF art.ok
            THEN <<lines[i]>> \o ScanLines(index, lines, i + 1, inLegal, art.label)
            ELSE IF IsPageLine(lines[i]) /\ lastArticleLabel # <<>>
            THEN <<rewritePageLineIn(index, lines[i], lastArticleLabel)>>
                 \o ScanLines(index, lines, i + 1, inLegal, lastArticleLabel)
            ELSE <<lines[i]>> \o ScanLines(index, lines, i + 1, inLegal, lastArticleLabel) :
              art \in {ArticleLineOf(lines[i])}})
  ELSE The({(IF cit.ok THEN <<rewriteLineIn(index, lines[i], <<"A","r","t","i","c","l","e"," ">> \o cit.label)>>
             ELSE <<lines[i]>>)
            \o ScanLines(index, lines, i + 1, inLegal, lastArticleLabel) :
              cit \in {CitationOf(lines[i])}})

linkifyLines(index, rawLines) == JoinLines(ScanLines(index, rawLines, 1, FALSE, <<>>))

\* ------------------------------------------------------------ inputs of the scanner
MaxLines == 3

CitResolved == <<"C","i","t","a","t","i","o","n",":"," ","C","B","A"," ","(","2","0","2","2","ENDASH","2","0","2","6",")",","," ","A","r","t","i","c","l","e"," ","V","I","(","E",")","(","1",")","(","b",")",";"," ","P","a","g","e"," ","2","3"," ","EMDASH"," ","O","p","e","n"," ","p","a","g","e">>
CitUnresolved == <<"C","i","t","a","t","i","o","n",":"," ","C","B","A"," ","(","2","0","2","2","ENDASH","2","0","2","6",")",","," ","A","r","t","i","c","l","e"," ","X","L",";"," ","P","a","g","e"," ","2","3"," ","EMDASH"," ","O","p","e","n"," ","p","a","g","e">>
HeaderLine == <<"L","E","G","A","L","_","E","X","C","E","R","P","T","S",":">>
ArtResolved == <<"A","R","T","I","C","L","E",":"," ","A","r","t","i","c","l","e"," ","X","X","I","I","I","(","B",")","(","3",")">>
ArtUnresolved == <<"A","R","T","I","C","L","E",":"," ","A","r","t","i","c","l","e"," ","X","L">>
ArtHinted == <<"A","R","T","I","C","L","E",":"," ","A","r","t","i","c","l","e"," ","I","V"," ","|"," ","P","A","G","E",":"," ","2","3">>
PageLine == <<"P","A","G","E",":"," ","2","3">>
ProseLine == <<"S","u","m","m","a","r","y",":"," ","t","h","e"," ","b","a","s","e"," ","t","a","x"," ","r","a","t","e"," ","a","p","p","l","i","e","s",".">>
ScanLineSet == {CitResolved, CitUnresolved, HeaderLine, ArtResolved, ArtUnresolved, ArtHinted, PageLine, ProseLine}

InitLinkify ==
  /\ pc = "linkifyCitations"
  /\ KEY_INDEX = <<>>
  /\ scanText \in {JoinLines(ls) : ls \in SeqsUpTo(ScanLineSet, MaxLines)}
  /\ linked = <<>>
  /\ LinkifyOthersIdle

\* linkifyCitations(raw): if (KEY_INDEX.size === 0) loadPageMap(); the loop; out.join("\n").
\* loadPageMap leaves KEY_INDEX empty when the file cannot be read
Linkify ==
  /\ pc = "linkifyCitations"
  /\ \E readable \in BOOLEAN :
       KEY_INDEX' = IF readable THEN LoadedIndex ELSE <<>>
  /\ linked' = linkifyLines(KEY_INDEX', SplitLines(scanText))
  /\ pc' = "linked"
  /\ UNCHANGED <<LinkifyOthers, scanText>>

NextLinkify ==
  \/ Linkify

SpecLinkify == InitLinkify /\ [][NextLinkify]_vars

\* -------------------------------------------------- findBestPageFromQuote
MinScoreTokenLen == 3
MaxQuoteWords == 40

\* snippetNorm.split(' '): the pieces between single spaces
SplitSpaces(s) ==
  LET sp == SelectSeq(Arr([i \in 1..Len(s) |-> i]), LAMBDA i : s[i] = " ")
      m == Len(sp)
  IN Arr([k \in 1..(m + 1) |->
            SubSeq(s, IF k = 1 THEN 1 ELSE sp[k - 1] + 1, IF k = m + 1 THEN Len(s) ELSE sp[k] - 1)])

IsScoreToken(w) == Len(w) >= MinScoreTokenLen

\* fuzzyScore(snippetNorm, pageNorm), the ratio hit / toks.length kept as [hit, of];
\* 1.0 is [1, 1] or any [n, n]
fuzzyScore(snippetNorm, pageNorm) ==
  LET toks == SelectSeq(SplitSpaces(snippetNorm), IsScoreToken)
  IN IF Len(snippetNorm) = 0 THEN [hit |-> 0, of |-> 1]
     ELSE IF Includes(pageNorm, snippetNorm) THEN [hit |-> 1, of |-> 1]
     ELSE IF Len(toks) = 0 THEN [hit |-> 0, of |-> 1]
     ELSE [hit |-> Cardinality({k \in 1..Len(toks) : Includes(pageNorm, <<" ">> \o toks[k] \o <<" ">>)}),
           of |-> Len(toks)]

IsOne(sc) == sc.hit = sc.of

\* the loop over _normPages from index i (0-based) with best so far:
\* if (s > best.score) best = { idx: i, score: s }; if (best.score === 1.0) break;
RECURSIVE BestFrom(_, _, _, _)
BestFrom(normPages, sn, i, best) ==
  IF i >= Len(normPages) THEN best
  ELSE The({The({IF IsOne(nb.score) THEN nb ELSE BestFrom(normPages, sn, i + 1, nb) :
                   nb \in {IF ScoreAbove(s, best.score) THEN [idx |-> i, score |-> s] ELSE best}}) :
              s \in {fuzzyScore(sn, normPages[i + 1])}})

\* rawQuote.split(/\s+/).slice(0, 40).join(' '), norm(trimmed), the loop, pageNum
findBestPageFromQuote(rawPages, quoteText) ==
  LET sn == NormPage(Join(Slice(SplitWs(quoteText), 0, MaxQuoteWords)))
      normPages == Arr([k \in 1..Len(rawPages) |-> NormPage(rawPages[k])])
      best == BestFrom(normPages, sn, 0, [idx |-> -1, score |-> [hit |-> 0, of |-> 1]])
  IN [page |-> best.idx + 1, score |-> best.score]

\* ------------------------------------------------------------ inputs
MaxBestPages == 3

BPhrase == <<"A","r","t","i","c","l","e"," ","I","V","."," ","N","o"," ","p","l","a","y","e","r"," ","s","h","a","l","l"," ","b","e"," ","o","p","t","i","o","n","e","d"," ","m","o","r","e"," ","t","h","a","n"," ","t","h","r","e","e"," ","t","i","m","e","s",".">>
BTokens == <<"W","h","e","n"," ","o","p","t","i","o","n","e","d",","," ","a"," ","P","l","a","y","e","r"," ","s","h","a","l","l"," ","r","e","p","o","r","t"," ","i","n"," ","t","h","r","e","e"," ","d","a","y","s",".">>
BPartial == <<"A"," ","p","l","a","y","e","r"," ","m","a","y"," ","e","l","e","c","t"," ","f","r","e","e"," ","a","g","e","n","c","y",".">>
BNone == <<"U","m","p","i","r","e","s"," ","w","e","a","r"," ","b","l","u","e",".">>
BestTexts == {BPhrase, BTokens, BPartial, BNone}
BestQuotes == {<<"p","l","a","y","e","r"," ","s","h","a","l","l"," ","b","e"," ","o","p","t","i","o","n","e","d">>, <<"LDQ","P","l","a","y","e","r"," ","s","h","a","l","l"," ","b","e"," ","o","p","t","i","o","n","e","d"," ","m","o","r","e"," ","t","h","a","n"," ","t","h","r","e","e"," ","t","i","m","e","s","RDQ">>, <<"s","a","l","a","r","y"," ","a","r","b","i","t","r","a","t","i","o","n">>}

InitBest ==
  /\ pc = "findBestPageFromQuote"
  /\ quotePages \in SeqsUpTo(BestTexts, MaxBestPages)
  /\ rawQuote \in BestQuotes
  /\ bestPage = [page |-> 0, score |-> [hit |-> 0, of |-> 1]]
  /\ BestOthersIdle

\* const r = await findBestPageFromQuote(q, pdfHref, origin)
FindBestPage ==
  /\ pc = "findBestPageFromQuote"
  /\ bestPage' = findBestPageFromQuote(quotePages, rawQuote)
  /\ pc' = "found"
  /\ UNCHANGED <<BestOthers, quotePages, rawQuote>>

NextBest ==
  \/ FindBestPage

SpecBest == InitBest /\ [][NextBest]_vars

\* ------------------------------------------- lib/pdfIndex.js: topic detectors
\* A regular expression is a sequence of steps: <<"lit", text>> (lower-case text under
\* the i flag), <<"ws1">> for \s+, <<"ws0">> for \s*, <<"any">> for .*, <<"wb">> for \b,
\* <<"dash2">> for [-–—]{2,}, <<"cls0", S>> and <<"cls1", S>> for [S]* and [S]+ over the
\* lower-case characters S, <<"ncls0", S>> for [^S]*,
\* <<"alt", <<p1, ..., pn>>>> for (?:p1|...|pn); Opt(p) is (?:p)?.
Lit(t) == <<"lit", t>>
Ws1 == <<"ws1">>
Ws0 == <<"ws0">>
AnyRun == <<"any">>
Wb == <<"wb">>
Dash2 == <<"dash2">>
Cls0(S) == <<"cls0", S>>
Cls1(S) == <<"cls1", S>>
NotCls0(S) == <<"ncls0", S>>
Alt(ps) == <<"alt", ps>>
Opt(p) == <<"alt", <<p, <<>>>>>>

IsDash(c) == c \in {"-", "ENDASH", "EMDASH"}

\* \b at offset p of text
BoundaryAt(text, p) ==
  (p >= 1 /\ IsWordChar(text[p])) # (p < Len(text) /\ IsWordChar(text[p + 1]))

\* the offsets a match of the steps k.. of pat can end at when it is at one of the
\* offsets from
RECURSIVE EndsOf(_, _, _, _)
StepEnds(text, step, from) ==
  CASE step[1] = "lit" -> {p + Len(step[2]) : p \in {q \in from : MatchAtCI(text, q, step[2])}}
    [] step[1] = "ws1" -> UNION {(p + 1)..RunEnd(text, p + 1, IsWs) : p \in from}
    [] step[1] = "ws0" -> UNION {p..RunEnd(text, p + 1, IsWs) : p \in from}
    [] step[1] = "any" -> UNION {p..RunEnd(text, p + 1, NotNewline) : p \in from}
    [] step[1] = "dash2" -> UNION {(p + 2)..RunEnd(text, p + 1, IsDash) : p \in from}
    [] step[1] = "cls0" -> UNION {p..RunEnd(text, p + 1, LAMBDA c : LowerChar(c) \in step[2]) : p \in from}
    [] step[1] = "cls1" -> UNION {(p + 1)..RunEnd(text, p + 1, LAMBDA c : LowerChar(c) \in step[2]) : p \in from}
    [] step[1] = "ncls0" -> UNION {p..RunEnd(text, p + 1, LAMBDA c : c \notin step[2]) : p \in from}
    [] step[1] = "wb" -> {p \in from : BoundaryAt(text, p)}
    [] step[1] = "alt" -> UNION {EndsOf(text, step[2][j], 1, from) : j \in 1..Len(step[2])}

EndsOf(text, pat, k, from) ==
  IF k > Len(pat) \/ from = {} THEN from
  ELSE EndsOf(text, pat, k + 1, StepEnds(text, pat[k], from))

\* the offset of the leftmost match of pat in text, or -1
MatchStart(pat, text) ==
  LET at == {p \in 0..Len(text) : EndsOf(text, pat, 1, {p}) # {}}
  IN IF at = {} THEN -1 ELSE SetMin(at)

\* rx.test(text)
RxTest(pat, text) == EndsOf(text, pat, 1, 0..Len(text)) # {}

\* a\s+b\s+c for the words given
WordsRx(ws) ==
  Arr([k \in 1..(2 * Len(ws) - 1) |-> IF k % 2 = 1 THEN Lit(ws[(k + 1) \div 2]) ELSE Ws1])

DETECTORS == <<
  [id |-> "dfa-core",
   matchers |-> <<
     WordsRx(<<<<"d","e","s","i","g","n","a","t","e","d">>, <<"f","o","r">>, <<"a","s","s","i","g","n","m","e","n","t">>>>),
     <<Lit(<<"s","e","v","e","n">>), Ws1, Opt(<<Lit(<<"(">>)>>), Lit(<<"7">>), Opt(<<Lit(<<")">>)>>), Ws1, Lit(<<"d","a","y","s">>)>>,
     <<Lit(<<"r","e","m","o","v","e">>), Opt(<<Lit(<<"d">>)>>), Ws1, Lit(<<"f","r","o","m">>), Ws1, Opt(<<Lit(<<"t","h","e">>), Ws1>>),
       Opt(<<Lit(<<"m","a","j","o","r">>), Ws1, Lit(<<"l","e","a","g","u","e">>), Ws1>>), Lit(<<"r","e","s","e","r","v","e">>), Ws1, Lit(<<"l","i","s","t">>)>> >>],
  [id |-> "options-core",
   matchers |-> <<
     <<Lit(<<"o","p","t","i","o","n","e">>), Opt(<<Lit(<<"d">>)>>), Ws1>>
       \o WordsRx(<<<<"i","n">>, <<"n","o","t">>, <<"m","o","r","e">>, <<"t","h","a","n">>, <<"t","h","r","e","e">>, <<"s","e","p","a","r","a","t","e">>, <<"s","e","a","s","o","n","s">>>>),
     WordsRx(<<<<"f","o","u","r","t","h">>, <<"o","p","t","i","o","n">>, <<"y","e","a","r">>, <<"s","h","a","l","l">>, <<"b","e">>, <<"g","r","a","n","t","e","d">>>>),
     <<Alt(<< <<Lit(<<"f","u","l","l">>), Ws1, Lit(<<"s","e","a","s","o","n">>), Ws1, AnyRun, Wb, Lit(<<"9","0">>), Wb>>,
              <<Wb, Lit(<<"n","i","n","e","t","y">>), Ws1, Lit(<<"(","9","0",")">>), Ws1, Lit(<<"d","a","y","s">>)>> >>)>>,
     <<Wb, Lit(<<"2","0">>), Ws1, Opt(<<Alt(<< <<Lit(<<"o","r">>)>>, <<Lit(<<"/">>)>> >>)>>), Ws0, Lit(<<"t","w","e","n","t","y">>), Ws0,
       Opt(<<Lit(<<"(">>)>>), Lit(<<"2","0">>), Opt(<<Lit(<<")">>)>>), Ws1, Lit(<<"d","a","y","s">>)>> >>],
  [id |-> "cbt-core",
   matchers |-> <<
     WordsRx(<<<<"c","o","m","p","e","t","i","t","i","v","e">>, <<"b","a","l","a","n","c","e">>, <<"t","a","x">>>>),
     <<Lit(<<"t","a","x">>), Ws1, Lit(<<"t","h","r","e","s","h","o","l","d">>), Opt(<<Lit(<<"s">>)>>), Ws1>>
       \o WordsRx(<<<<"f","o","r">>, <<"e","a","c","h">>, <<"c","o","n","t","r","a","c","t">>, <<"y","e","a","r">>>>),
     WordsRx(<<<<"a","v","e","r","a","g","e">>, <<"a","n","n","u","a","l">>, <<"v","a","l","u","e">>, <<"o","f">>, <<"p","l","a","y","e","r">>, <<"c","o","n","t","r","a","c","t">>>>)
       \o <<Opt(<<Lit(<<"s">>)>>)>> >>] >>

\* JavaScript values compared by ===: a string equals a string of the same
\* characters, an object equals nothing but itself
JsString(s) == [type |-> "string", val |-> s]
JsObject(o) == [type |-> "object", val |-> o]
StrictEq(a, b) == a.type = b.type /\ a.val = b.val

\* the number of matchers of det that test true on combined
DetectorScore(det, combined) ==
  Cardinality({k \in 1..Len(det.matchers) : RxTest(det.matchers[k], combined)})

\* the loop of bestDetectorForQuotes from detector k with best so far
RECURSIVE BestDetectorFrom(_, _, _)
BestDetectorFrom(combined, k, best) ==
  IF k > Len(DETECTORS) THEN best
  ELSE The({BestDetectorFrom(combined, k + 1,
                             IF sc > best.sc THEN [det |-> DETECTORS[k], sc |-> sc] ELSE best) :
              sc \in {DetectorScore(DETECTORS[k], combined)}})

\* return best.det: the detector, an object
bestDetectorForQuotes(qs) ==
  JsObject(BestDetectorFrom(toLowerCase(Join(qs)), 1, [det |-> DETECTORS[1], sc |-> -1]).det)

MatchesDetector(det, text) == \E k \in 1..Len(det.matchers) : RxTest(det.matchers[k], text)

\* the loop of pickTopPagesByDetector over _rawPages from index i (0-based):
\* DETECTORS.find(d => d.id === detId), if (!det) continue
RECURSIVE PickFrom(_, _, _, _, _)
PickFrom(rawPages, detId, maxPages, i, picked) ==
  IF i >= Len(rawPages) THEN picked
  ELSE The({IF dets = {} THEN PickFrom(rawPages, detId, maxPages, i + 1, picked)
            ELSE The({IF Len(np) >= maxPages THEN np
                      ELSE PickFrom(rawPages, detId, maxPages, i + 1, np) :
                        np \in {IF MatchesDetector(DETECTORS[SetMin(dets)], rawPages[i + 1])
                                THEN Append(picked, i + 1) ELSE picked}}) :
              dets \in {{k \in 1..Len(DETECTORS) : StrictEq(JsString(DETECTORS[k].id), detId)}}})

pickTopPagesByDetector(rawPages, detId, maxPages) == PickFrom(rawPages, detId, maxPages, 0, <<>>)
\* ------------------------------------------- lib/pdfIndex.js: attachVerification
\* s.toLowerCase().replace(/[^a-z0-9\s'-]/g, ' ').split(/\s+/).filter(w => w.length >= 4)
TermChar(c) ==
  IF LowerChar(c) \in LowerSet \cup DigitSet \cup {"'", "-"} \/ IsWs(c) THEN LowerChar(c) ELSE " "
IsTerm(w) == Len(w) >= 4
tokenizeTerms(s) == SelectSeq(SplitWs(Arr([i \in 1..Len(s) |-> TermChar(s[i])])), IsTerm)

\* w.toLowerCase().replace(/[^a-z0-9'-]/g, '')
IsBareChar(c) == c \in LowerSet \cup DigitSet \cup {"'", "-"}
BareWord(w) == SelectSeq(toLowerCase(w), IsBareChar)

\* s.replace(/\s+\S*$/, ''): s without its last run of whitespace and what follows
DropLastWord(s) ==
  LET ws == {i \in 1..Len(s) : IsWs(s[i])}
      last == SetMax(ws)
      start == SetMin({i \in 1..last : \A k \in i..last : IsWs(s[k])})
  IN IF ws = {} THEN s ELSE SubSeq(s, 1, start - 1)

\* the score of the window of 14 words at index i (0-based)
WindowScore(words, wanted, i) ==
  Cardinality({k \in (i + 1)..Min(i + 14, Len(words)) : BareWord(words[k]) \in wanted})

\* the first index whose window scores highest
BestWindowIdx(words, wanted) ==
  LET sc == [i \in 0..(Len(words) - 1) |-> WindowScore(words, wanted, i)]
  IN SetMin({i \in DOMAIN sc : \A j \in DOMAIN sc : sc[j] <= sc[i]})

buildSnippet(rawPageText, wantedTerms, minWords, maxWords) ==
  LET words == SplitWs(rawPageText)
      bestIdx == BestWindowIdx(words, {toLowerCase(wantedTerms[k]) : k \in 1..Len(wantedTerms)})
      start0 == Max(0, bestIdx - (minWords \div 2))
      end == Min(Len(words), start0 + maxWords)
      start == IF end - start0 < minWords THEN Max(0, end - minWords) ELSE start0
      snippet == CollapseWs(Trim(Join(Slice(words, start, end))))
  IN IF Len(words) <= maxWords THEN Trim(rawPageText)
     ELSE IF Len(snippet) > 340 THEN DropLastWord(Slice(snippet, 0, 335)) \o <<"ELLIPSIS">>
     ELSE snippet

\* [A-Za-z0-9\s,.'&\-()] and the separator class [—\-:\. ]
IsTitleChar(c) == IsAlnum(c) \/ IsWs(c) \/ c \in {",", ".", "'", "&", "-", "(", ")"}
IsSeparator(c) == c \in {"EMDASH", "-", ":", ".", " "}
IsSectionIdChar(c) == IsAlnum(c) \/ c \in {"(", ")", ".", "-"}

\* \s*[—\-:\. ]\s*([A-Z][A-Za-z0-9\s,.'&\-()]{3,120}) after index r of s (the i flag
\* on): the index the title group starts at, the greedy \s* giving characters back
\* until the rest matches, or 0
TitleStartAfter(s, r) ==
  LET ws1End == RunEnd(s, r + 1, IsWs)
      starts(w) == {g \in (w + 2)..(RunEnd(s, w + 2, IsWs) + 1) :
                      /\ g + 3 <= Len(s)
                      /\ IsLetter(s[g])
                      /\ RunEnd(s, g + 1, IsTitleChar) >= g + 3}
      ws == {w \in r..ws1End : w + 1 <= Len(s) /\ IsSeparator(s[w + 1]) /\ starts(w) # {}}
  IN IF ws = {} THEN 0 ELSE SetMax(starts(SetMax(ws)))

\* (word\s+[first][rest]*) and the title after it tried at offset p: [ok, head, title]
HeadingAt(s, p, word, IsFirst(_), IsRest(_)) ==
  LET wsEnd == RunEnd(s, p + Len(word) + 1, IsWs)
      idEnd == IF wsEnd + 1 <= Len(s) /\ IsFirst(s[wsEnd + 1]) THEN RunEnd(s, wsEnd + 2, IsRest) ELSE wsEnd
      rs == {r \in (wsEnd + 1)..idEnd : TitleStartAfter(s, r) > 0}
      g == TitleStartAfter(s, SetMax(rs))
  IN IF MatchAtCI(s, p, word) /\ wsEnd >= p + Len(word) + 1 /\ rs # {}
     THEN [ok |-> TRUE, head |-> SubSeq(s, p + 1, SetMax(rs)),
           title |-> SubSeq(s, g, Min(RunEnd(s, g + 1, IsTitleChar), g + 120))]
     ELSE [ok |-> FALSE, head |-> <<>>, title |-> <<>>]

\* art ? (art[1] + (art[2] ? ` — ${art[2]}` : '')) : ''
PartOf(m) == IF m.ok THEN m.head \o <<" ","EMDASH"," ">> \o m.title ELSE <<>>

ArticlePart(s) ==
  LET at == {p \in 0..(Len(s) - 1) : HeadingAt(s, p, <<"a","r","t","i","c","l","e">>, IsRomanDigit, IsRomanDigit).ok}
  IN IF at = {} THEN <<>> ELSE PartOf(HeadingAt(s, SetMin(at), <<"a","r","t","i","c","l","e">>, IsRomanDigit, IsRomanDigit))

SectionPart(s) ==
  LET at == {p \in 0..(Len(s) - 1) :
               BoundaryAt(s, p) /\ HeadingAt(s, p, <<"s","e","c","t","i","o","n">>, IsAlnum, IsSectionIdChar).ok}
  IN IF at = {} THEN <<>> ELSE PartOf(HeadingAt(s, SetMin(at), <<"s","e","c","t","i","o","n">>, IsAlnum, IsSectionIdChar))

detectCitationParts(rawPageText) ==
  [article |-> ArticlePart(rawPageText), section |-> SectionPart(rawPageText)]

\* [parts.article, parts.section] without the empty ones, joined by ' · '
WhereOf(parts) ==
  IF parts.article # <<>> /\ parts.section # <<>> THEN parts.article \o <<" ","MIDDOT"," ">> \o parts.section
  ELSE parts.article \o parts.section

OpenPage(pageNum) == <<"[","O","p","e","n"," ","p","a","g","e","]","(">> \o pdfHref \o <<"#","p","a","g","e","=">> \o NumText(pageNum) \o <<")">>

buildCitationLine(parts, pageNum) ==
  <<"C","i","t","a","t","i","o","n",":"," ","C","B","A"," ","(","2","0","2","2","ENDASH","2","0","2","6",")",","," ">>
  \o (IF WhereOf(parts) # <<>> THEN WhereOf(parts) ELSE <<"E","x","a","c","t"," ","c","l","a","u","s","e"," ","o","n"," ","c","i","t","e","d"," ","p","a","g","e">>)
  \o <<";"," ","P","a","g","e"," ">> \o NumText(pageNum) \o <<" ","EMDASH"," ">> \o OpenPage(pageNum)

\* /(^|\n)Citation:\s*[\s\S]*?(?=\n{2,}|\n[-–—]{2,}|\nAI interpretation:|\n$)/i
\* the lookahead at offset e of s
CitationStopAt(s, e) ==
  /\ e + 1 <= Len(s) /\ s[e + 1] = "\n"
  /\ \/ e + 1 = Len(s)
     \/ s[e + 2] = "\n"
     \/ (e + 3 <= Len(s) /\ IsDash(s[e + 2]) /\ IsDash(s[e + 3]))
     \/ MatchAtCI(s, e + 1, <<"a","i"," ","i","n","t","e","r","p","r","e","t","a","t","i","o","n",":">>)

\* the match tried at offset p: the offset it ends at, or -1.  The greedy \s* gives
\* characters back only when no stop lies at or after its end.
CitationBlockEnd(s, p) ==
  LET c0 == IF MatchAtCI(s, p, <<"c","i","t","a","t","i","o","n",":">>) THEN p ELSE p + 1
      cEnd == c0 + Len(<<"c","i","t","a","t","i","o","n",":">>)
      wsEnd == RunEnd(s, cEnd + 1, IsWs)
      after == {e \in wsEnd..Len(s) : CitationStopAt(s, e)}
      within == {e \in cEnd..(wsEnd - 1) : CitationStopAt(s, e)}
  IN IF ~(\/ (p = 0 /\ MatchAtCI(s, 0, <<"c","i","t","a","t","i","o","n",":">>))
          \/ (p + 1 <= Len(s) /\ s[p + 1] = "\n" /\ MatchAtCI(s, p + 1, <<"c","i","t","a","t","i","o","n",":">>)))
     THEN -1
     ELSE IF after # {} THEN SetMin(after)
     ELSE IF within # {} THEN SetMax(within)
     ELSE -1

SourceHeaderRx == <<Dash2, Ws0, Lit(<<"s","o","u","r","c","e">>), Ws0, Lit(<<"t","e","x","t">>), Ws0, Dash2>>
VerificationHeaderRx == <<Dash2, Ws0, Lit(<<"v","e","r","i","f","i","c","a","t","i","o","n">>), Ws0, Dash2>>

replaceOrInsertCitationBlock(ans, citationLine) ==
  LET at == {p \in 0..(Len(ans) - 1) : CitationBlockEnd(ans, p) >= 0}
      src == MatchStart(SourceHeaderRx, ans)
  IN IF at # {}
     THEN Slice(ans, 0, SetMin(at)) \o <<"\n">> \o citationLine \o <<"\n">>
          \o Slice(ans, CitationBlockEnd(ans, SetMin(at)), Len(ans))
     ELSE IF src >= 0
     THEN Slice(ans, 0, src) \o citationLine \o <<"\n", "\n">> \o Slice(ans, src, Len(ans))
     ELSE ans \o <<"\n", "\n">> \o citationLine \o <<"\n">>

\* open([^close]{3,400})close tried at offset i of s: the index of the closing mark, or 0
MarkedAt(s, i, open, close) ==
  LET stops == {k \in (i + 2)..Len(s) : s[k] = close}
  IN IF s[i + 1] = open /\ stops # {} /\ SetMin(stops) - (i + 2) >= 3 /\ SetMin(stops) - (i + 2) <= 400
     THEN SetMin(stops) ELSE 0

\* while ((q = rx.exec(tail)) && quotes.length < 3) { const s = q[1].trim(); if (s) quotes.push(s); }
RECURSIVE QuotesFrom(_, _, _, _, _)
QuotesFrom(s, open, close, lastIndex, out) ==
  The({IF at = {} \/ Len(out) >= 3 THEN out
       ELSE The({QuotesFrom(s, open, close, to,
                            IF Trim(SubSeq(s, SetMin(at) + 2, to - 1)) # <<>>
                            THEN Append(out, Trim(SubSeq(s, SetMin(at) + 2, to - 1))) ELSE out) :
                   to \in {MarkedAt(s, SetMin(at), open, close)}}) :
         at \in {{i \in lastIndex..(Len(s) - 1) : MarkedAt(s, i, open, close) > 0}}})

\* the loop over the two expressions: curly marks first, straight marks when none
PulledQuotes(tail) ==
  IF QuotesFrom(tail, "LDQ", "RDQ", 0, <<>>) # <<>> THEN QuotesFrom(tail, "LDQ", "RDQ", 0, <<>>)
  ELSE QuotesFrom(tail, "\"", "\"", 0, <<>>)

\* verMatch ? verMatch[1] : answerText
TailOf(ans) ==
  LET v == MatchStart(VerificationHeaderRx, ans)
  IN IF v < 0 THEN ans ELSE Slice(ans, SetMax(EndsOf(ans, VerificationHeaderRx, 1, {v})), Len(ans))

\* what findBestPageFromQuote returns besides page and score: displayQuote and parts
BelowExact(sc) == sc.hit * 100 < 98 * sc.of
QuoteResult(rawPages, q) ==
  LET r == findBestPageFromQuote(rawPages, q)
      trimmed == Join(Slice(SplitWs(q), 0, MaxQuoteWords))
  IN IF r.page = 0 THEN [page |-> 0, displayQuote |-> <<>>, parts |-> [article |-> <<>>, section |-> <<>>]]
     ELSE [page |-> r.page,
           displayQuote |-> IF BelowExact(r.score)
                            THEN buildSnippet(rawPages[r.page], tokenizeTerms(trimmed), 25, 40)
                            ELSE trimmed,
           parts |-> detectCitationParts(rawPages[r.page])]

buildExcerptForPage(rawPages, pageNum, queryText) ==
  LET wanted == tokenizeTerms(queryText)
  IN [page |-> pageNum,
      displayQuote |-> buildSnippet(rawPages[pageNum],
                                    IF Len(wanted) > 0 THEN wanted ELSE <<<<"t","h","e">>, <<"a","n","d">>>>, 25, 40),
      parts |-> detectCitationParts(rawPages[pageNum])]

\* 1) the results of the quotes that found a page
QuoteResults(rawPages, qs) ==
  SelectSeq(Arr([k \in 1..Len(qs) |-> QuoteResult(rawPages, qs[k])]), LAMBDA r : r.page # 0)

\* 2) the results pushed by the detectors when no result has a page
DetectorResults(rawPages, ans, qs) ==
  The({Arr([k \in 1..Len(picked) |->
              buildExcerptForPage(rawPages, picked[k], IF Len(qs) > 0 THEN qs[1] ELSE ans)]) :
         picked \in {pickTopPagesByDetector(rawPages,
                                            bestDetectorForQuotes(IF Len(qs) > 0 THEN qs ELSE <<ans>>), 2)}})

ResultsOf(rawPages, ans, qs) ==
  The({IF Len(byQuote) > 0 THEN byQuote ELSE DetectorResults(rawPages, ans, qs) :
         byQuote \in {QuoteResults(rawPages, qs)}})

\* `• Page ${r.page} — [Open page](${pdfHref}#page=${r.page}) — “${quote}”${hint}`
SourceBullet(r) ==
  IF r.page # 0
  THEN <<"BULLET"," ","P","a","g","e"," ">> \o NumText(r.page) \o <<" ","EMDASH"," ">> \o OpenPage(r.page) \o <<" ","EMDASH"," ","LDQ">>
       \o Trim(CollapseWs(r.displayQuote)) \o <<"RDQ">>
       \o (IF WhereOf(r.parts) # <<>> THEN <<" ","EMDASH"," ">> \o WhereOf(r.parts) ELSE <<>>)
  ELSE <<"BULLET"," ","LDQ">> \o Trim(CollapseWs(r.displayQuote)) \o <<"RDQ">>

SourceBlock(rs) ==
  <<"EMDASH","EMDASH"," ","S","o","u","r","c","e"," ","t","e","x","t"," ","EMDASH","EMDASH","\n">> \o JoinLines(Arr([k \in 1..Len(rs) |-> SourceBullet(rs[k])])) \o <<"\n">>

\* /\n•\s*Confidence[^\n]*\n?/gi tried at offset p: the offset the match ends at, or -1
ConfidenceEnd(s, p) ==
  LET wsEnd == RunEnd(s, p + 3, IsWs)
      lineEnd == RunEnd(s, wsEnd + Len(<<"c","o","n","f","i","d","e","n","c","e">>) + 1, NotNewline)
  IN IF p + 2 <= Len(s) /\ s[p + 1] = "\n" /\ s[p + 2] = "BULLET" /\ MatchAtCI(s, wsEnd, <<"c","o","n","f","i","d","e","n","c","e">>)
     THEN IF lineEnd + 1 <= Len(s) THEN lineEnd + 1 ELSE lineEnd
     ELSE -1

\* rebuilt.replace(/\n•\s*Confidence[^\n]*\n?/gi, '\n')
RECURSIVE StripConfidence(_)
StripConfidence(s) ==
  The({IF at = {} THEN s
       ELSE Slice(s, 0, SetMin(at)) \o <<"\n">>
            \o StripConfidence(Slice(s, ConfidenceEnd(s, SetMin(at)), Len(s))) :
         at \in {{p \in 0..(Len(s) - 1) : ConfidenceEnd(s, p) >= 0}}})

\* the text rebuilt from the results: the Citation line of the first result, then the
\* Source text block in place of the Verification block or appended
Rebuilt(ans, rs) ==
  LET cited == replaceOrInsertCitationBlock(ans, buildCitationLine(rs[1].parts, rs[1].page))
      v == MatchStart(VerificationHeaderRx, cited)
  IN StripConfidence(IF MatchStart(VerificationHeaderRx, ans) >= 0
                     THEN IF v >= 0 THEN Slice(cited, 0, v) \o <<"\n">> \o SourceBlock(rs) ELSE cited
                     ELSE cited \o <<"\n", "\n">> \o SourceBlock(rs))

\* attachVerification(answerText, pdfHref, origin) over the loaded pages:
\* { text, changed } and the results it was built from
attachVerification(rawPages, ans) ==
  The({IF Len(rs) = 0 THEN [text |-> ans, changed |-> FALSE, results |-> rs]
       ELSE [text |-> Rebuilt(ans, rs), changed |-> TRUE, results |-> rs] :
         rs \in {ResultsOf(rawPages, ans, PulledQuotes(TailOf(ans)))}})

\* ------------------------------------------------------------ inputs
MaxVerifyPages == 2
MaxApplications == 2

VDfa == <<"A","r","t","i","c","l","e"," ","X","X","."," ","W","a","i","v","e","r","s","."," ","A"," ","P","l","a","y","e","r"," ","d","e","s","i","g","n","a","t","e","d"," ","f","o","r"," ","a","s","s","i","g","n","m","e","n","t"," ","m","a","y"," ","b","e"," ","r","e","m","o","v","e","d",".">>
VOpt == <<"T","h","e"," ","f","o","u","r","t","h"," ","o","p","t","i","o","n"," ","y","e","a","r"," ","s","h","a","l","l"," ","b","e"," ","g","r","a","n","t","e","d"," ","t","o"," ","a"," ","C","l","u","b",".">>
VCbt == <<"S","e","c","t","i","o","n"," ","B","."," ","T","a","x","."," ","T","h","e"," ","C","o","m","p","e","t","i","t","i","v","e"," ","B","a","l","a","n","c","e"," ","T","a","x"," ","a","p","p","l","i","e","s",".">>
VNone == <<"U","m","p","i","r","e","s"," ","w","e","a","r"," ","b","l","u","e",".">>
VerifyTexts == {VDfa, VOpt, VCbt, VNone}

ANoQuote == <<"A"," ","P","l","a","y","e","r"," ","d","e","s","i","g","n","a","t","e","d"," ","f","o","r"," ","a","s","s","i","g","n","m","e","n","t"," ","h","a","s"," ","s","e","v","e","n"," ","(","7",")"," ","d","a","y","s",".">>
AQuoteMiss == <<"T","h","e"," ","C","l","u","b"," ","h","a","s"," ","LDQ","s","e","v","e","n"," ","(","7",")"," ","d","a","y","s","RDQ"," ","t","o"," ","a","c","t",".">>
AQuoteCited == <<"A"," ","f","o","u","r","t","h"," ","y","e","a","r"," ","e","x","i","s","t","s",".","\n","C","i","t","a","t","i","o","n",":"," ","C","B","A"," ","(","2","0","2","2","ENDASH","2","0","2","6",")","\n","\n","T","h","e"," ","t","e","x","t",":"," ","LDQ","f","o","u","r","t","h"," ","o","p","t","i","o","n"," ","y","e","a","r"," ","s","h","a","l","l"," ","b","e"," ","g","r","a","n","t","e","d","RDQ">>
AVerification == <<"A"," ","f","o","u","r","t","h"," ","y","e","a","r"," ","e","x","i","s","t","s",".","\n","EMDASH","EMDASH"," ","V","e","r","i","f","i","c","a","t","i","o","n"," ","EMDASH","EMDASH","\n","BULLET"," ","LDQ","f","o","u","r","t","h"," ","o","p","t","i","o","n"," ","y","e","a","r"," ","s","h","a","l","l"," ","b","e"," ","g","r","a","n","t","e","d","RDQ","\n","BULLET"," ","C","o","n","f","i","d","e","n","c","e",":"," ","H","i","g","h","\n">>
VerifyAnswers == {ANoQuote, AQuoteMiss, AQuoteCited, AVerification}

NoOutput == [text |-> <<>>, changed |-> FALSE, results |-> <<>>]

InitVerify ==
  /\ pc = "ensurePagesLoaded"
  /\ verifyPdf \in SeqsUpTo(VerifyTexts, MaxVerifyPages)
  /\ verifyPages = <<>>
  /\ verifyLoaded = FALSE
  /\ verifyAnswer \in VerifyAnswers
  /\ verifyOut = NoOutput
  /\ applied = 0
  /\ VerifyOthersIdle

\* await ensurePagesLoaded(pdfHref, origin): returns at once when the pages are held,
\* loads them otherwise, and throws when the PDF cannot be read
EnsureLoaded ==
  /\ pc = "ensurePagesLoaded"
  /\ \E readable \in BOOLEAN :
       IF verifyLoaded THEN pc' = "attachVerification" /\ UNCHANGED <<verifyPages, verifyLoaded>>
       ELSE IF readable THEN /\ verifyPages' = verifyPdf
                             /\ verifyLoaded' = TRUE
                             /\ pc' = "attachVerification"
       ELSE pc' = "thrown" /\ UNCHANGED <<verifyPages, verifyLoaded>>
  /\ UNCHANGED <<VerifyOthers, verifyPdf, verifyAnswer, verifyOut, applied>>

\* the rest of attachVerification: quotes, results, bullets, Citation line, rebuilt text
AttachVerification ==
  /\ pc = "attachVerification"
  /\ verifyOut' = attachVerification(verifyPages, verifyAnswer)
  /\ applied' = applied + 1
  /\ pc' = "returned"
  /\ UNCHANGED <<VerifyOthers, verifyPdf, verifyPages, verifyLoaded, verifyAnswer>>

\* attachVerification called on the text it returned
Reapply ==
  /\ pc = "returned"
  /\ applied < MaxApplications
  /\ verifyAnswer' = verifyOut.text
  /\ verifyOut' = NoOutput
  /\ pc' = "ensurePagesLoaded"
  /\ UNCHANGED <<VerifyOthers, verifyPdf, verifyPages, verifyLoaded, applied>>

NextVerify ==
  \/ EnsureLoaded
  \/ AttachVerification
  \/ Reapply

SpecVerify == InitVerify /\ [][NextVerify]_vars
\* ------------------------------------------- pages/api/chat.js: the polling loop
PollCap == 40

\* (a loop that polls once more: tries <= 40)
KeepsPollingOneMore(st, n) == st \in {"queued", "in_progress"} /\ n <= PollCap

\* (status === "queued" || status === "in_progress") && tries < 40
KeepsPolling(st, n) == st \in {"queued", "in_progress"} /\ n < PollCap

\* the statuses a run of the Assistants API can be in
AllRunStatuses ==
  {"queued", "in_progress", "completed", "failed", "cancelled", "expired", "requires_action"}
PollTexts == {<<>>, ANone}

InitPoll ==
  /\ pc = "createRun"
  /\ runStatus = "none"
  /\ tries = 0
  /\ threw = FALSE
  /\ messagesRead = FALSE
  /\ attachCalled = FALSE
  /\ pollRes = NoResponse
  /\ PollOthersIdle

\* const run = await ofetch(.../runs, POST); let status = run.status, tries = 0;
\* ofetch throws when the response is not ok
CreateRun ==
  /\ pc = "createRun"
  /\ \/ \E s \in AllRunStatuses : runStatus' = s /\ pc' = "poll" /\ threw' = threw
     \/ runStatus' = runStatus /\ pc' = "caught" /\ threw' = TRUE
  /\ UNCHANGED <<PollOthers, tries, messagesRead, attachCalled, pollRes>>

\* one turn of the while loop: the timer, the status request, status = s.status; tries++
PollStatus ==
  /\ pc = "poll"
  /\ KeepsPolling(runStatus, tries)
  /\ \/ \E s \in AllRunStatuses : runStatus' = s /\ tries' = tries + 1 /\ pc' = pc /\ threw' = threw
     \/ runStatus' = runStatus /\ tries' = tries /\ pc' = "caught" /\ threw' = TRUE
  /\ UNCHANGED <<PollOthers, messagesRead, attachCalled, pollRes>>

\* the loop is left: if (status !== "completed") return res.status(200).json({ result:
\* "Assistant error: timed out preparing the reply." })
LeavePoll ==
  /\ pc = "poll"
  /\ ~KeepsPolling(runStatus, tries)
  /\ IF runStatus # "completed"
     THEN pc' = "responded" /\ pollRes' = [code |-> 200, result |-> TimedOutText]
     ELSE pc' = "read" /\ pollRes' = pollRes
  /\ UNCHANGED <<PollOthers, runStatus, tries, threw, messagesRead, attachCalled>>

\* 6) Read, 7), 8): the messages are read, attachVerification is called in its try, and
\* finalText is sent; out is what the call returned, NoResult when it threw
ReadAndAttach ==
  /\ pc = "read"
  /\ \/ \E msg \in PollTexts, returned \in BOOLEAN :
          /\ messagesRead' = TRUE
          /\ attachCalled' = TRUE
          /\ pollRes' = [code |-> 200,
                         result |-> FinalText(RawOf(msg),
                                              IF returned
                                              THEN [text |-> RawOf(msg) \o <<"\n","\n","EMDASH","EMDASH"," ","S","o","u","r","c","e"," ","t","e","x","t"," ","EMDASH","EMDASH","\n">>, page |-> 1]
                                              ELSE NoResult)]
          /\ pc' = "responded"
          /\ threw' = threw
       \/ /\ pc' = "caught" /\ threw' = TRUE
          /\ UNCHANGED <<messagesRead, attachCalled, pollRes>>
  /\ UNCHANGED <<PollOthers, runStatus, tries>>

\* catch (e): return res.status(200).json({ result: "Server error preparing the reply. ..." })
Caught ==
  /\ pc = "caught"
  /\ pollRes' = [code |-> 200, result |-> ServerErrorText]
  /\ pc' = "responded"
  /\ UNCHANGED <<PollOthers, runStatus, tries, threw, messagesRead, attachCalled>>

NextPoll ==
  \/ CreateRun
  \/ PollStatus
  \/ LeavePoll
  \/ ReadAndAttach
  \/ Caught

SpecPoll == InitPoll /\ [][NextPoll]_vars

\* every step of the handler is an await that settles: the timer fires and each
\* request resolves or rejects
FairSpecPoll == SpecPoll /\ WF_vars(NextPoll)
\* ------------------------------------------- pages/embed.js: the chat widget
MaxSubmissions == 3

WidgetErrorText == <<"S","o","r","r","y","EMDASH","s","o","m","e","t","h","i","n","g"," ","w","e","n","t"," ","w","r","o","n","g","."," ","P","l","e","a","s","e"," ","t","r","y"," ","a","g","a","i","n",".">>

\* (a handler that checks the input only)
IgnoresEmptyOnly(inputText, typing) == Trim(inputText) = <<>>

\* if (!input.trim() || isTyping) return;
Ignores(inputText, typing) == Trim(inputText) = <<>> \/ typing

WidgetInputs == {<<>>, <<" ">>, <<"C","a","n"," ","a"," ","p","l","a","y","e","r"," ","b","e"," ","o","p","t","i","o","n","e","d","?">>}
Outstanding == {c \in 1..Len(calls) : calls[c] # "done"}

InitWidget ==
  /\ pc = "mounted"
  /\ messages = <<>>
  /\ input = <<>>
  /\ isTyping = FALSE
  /\ widgetError = <<>>
  /\ shownTyping = FALSE
  /\ calls = <<>>
  /\ lastEvent = "none"
  /\ WidgetOthersIdle

\* onChange={(e) => setInput(e.target.value)}; the render that follows an event
\* shows the state as it is
ChangeInput ==
  /\ \E v \in WidgetInputs : input' = v
  /\ shownTyping' = isTyping
  /\ lastEvent' = "input"
  /\ UNCHANGED <<WidgetOthers, pc, messages, isTyping, widgetError, calls>>

\* submit(text) up to its first await: setMessages, setInput(""), setIsTyping(true),
\* setError(""), the fetch is sent; the event ends and the widget renders
Submitted ==
  /\ messages' = Append(messages, "user")
  /\ input' = <<>>
  /\ isTyping' = TRUE
  /\ shownTyping' = TRUE
  /\ widgetError' = <<>>
  /\ calls' = Append(calls, "fetch")
  /\ lastEvent' = "accepted"

\* handleSubmit and the Enter branch of handleKeyDown: the same check on the input
\* and the isTyping of the render, then submit(input.trim())
SubmitOrIgnore ==
  IF Ignores(input, shownTyping)
  THEN lastEvent' = "ignored" /\ UNCHANGED <<messages, input, isTyping, widgetError, shownTyping, calls>>
  ELSE Len(calls) < MaxSubmissions /\ Submitted

HandleSubmit ==
  /\ SubmitOrIgnore
  /\ UNCHANGED <<WidgetOthers, pc>>

\* if (e.key === "Enter" && !e.shiftKey) { ... }: other keys do nothing
HandleKeyDown ==
  /\ \E enter \in BOOLEAN, shiftKey \in BOOLEAN :
       IF enter /\ ~shiftKey THEN SubmitOrIgnore
       ELSE lastEvent' = "key" /\ UNCHANGED <<messages, input, isTyping, widgetError, shownTyping, calls>>
  /\ UNCHANGED <<WidgetOthers, pc>>

\* catch (e) { setError(...) } finally { setIsTyping(false) } of call c
Failed(c) ==
  /\ widgetError' = WidgetErrorText
  /\ isTyping' = FALSE
  /\ calls' = [calls EXCEPT ![c] = "done"]
  /\ messages' = messages

\* await fetch("/api/chat", ...) of call c settles: a response that is ok, a response
\* that is not, or a rejection
FetchSettles(c) ==
  /\ c \in 1..Len(calls) /\ calls[c] = "fetch"
  /\ \E outcome \in {"ok", "httpError", "networkError"} :
       IF outcome = "networkError" THEN Failed(c)
       ELSE /\ calls' = [calls EXCEPT ![c] = IF outcome = "ok" THEN "json" ELSE "text"]
            /\ UNCHANGED <<messages, isTyping, widgetError>>
  /\ lastEvent' = "settled"
  /\ UNCHANGED <<WidgetOthers, pc, input, shownTyping>>

\* await res.text() and the throw, or await res.json() and setMessages with the
\* assistant's message; then finally
ReadBody(c) ==
  /\ c \in 1..Len(calls) /\ calls[c] \in {"json", "text"}
  /\ \E parsed0 \in BOOLEAN :
       IF calls[c] = "json" /\ parsed0
       THEN /\ messages' = Append(messages, "assistant")
            /\ isTyping' = FALSE
            /\ calls' = [calls EXCEPT ![c] = "done"]
            /\ widgetError' = widgetError
       ELSE Failed(c)
  /\ lastEvent' = "settled"
  /\ UNCHANGED <<WidgetOthers, pc, input, shownTyping>>

\* the render React schedules for the state set after an await
Render ==
  /\ shownTyping # isTyping
  /\ shownTyping' = isTyping
  /\ lastEvent' = "rendered"
  /\ UNCHANGED <<WidgetOthers, pc, messages, input, isTyping, widgetError, calls>>

NextWidget ==
  \/ ChangeInput
  \/ HandleSubmit
  \/ HandleKeyDown
  \/ \E c \in 1..MaxSubmissions : FetchSettles(c)
  \/ \E c \in 1..MaxSubmissions : ReadBody(c)
  \/ Render

SpecWidget == InitWidget /\ [][NextWidget]_vars

\* every await of submit settles and every scheduled render runs
FairSpecWidget ==
  /\ SpecWidget
  /\ \A c \in 1..MaxSubmissions : WF_vars(FetchSettles(c)) /\ WF_vars(ReadBody(c))
  /\ WF_vars(Render)
\* ------------------------------------------- the regular-expression linker (linkifyCitations)
\* public/mlb/page_map.json as loadPageMap reads it: the entries in key order
PageMapFile == <<
  [key |-> <<"A","r","t","i","c","l","e"," ","V","I","EMDASH","S","a","l","a","r","i","e","s">>, start |-> 25,
   title |-> <<"S","a","l","a","r","i","e","s">>],
  [key |-> <<"A","r","t","i","c","l","e"," ","V","I","(","E",")","EMDASH","S","a","l","a","r","y"," ","A","r","b","i","t","r","a","t","i","o","n">>, start |-> 27,
   title |-> <<"T","h","e"," ","c","r","i","t","e","r","i","a"," ","w","i","l","l"," ","b","e"," ","t","h","e"," ","q","u","a","l","i","t","y"," ","o","f"," ","t","h","e"," ","P","l","a","y","e","r","'","s"," ","c","o","n","t","r","i","b","u","t","i","o","n"," ","t","o"," ","h","i","s"," ","C","l","u","b">>],
  [key |-> <<"A","r","t","i","c","l","e"," ","X","X","I","I","I","EMDASH","C","o","m","p","e","t","i","t","i","v","e"," ","B","a","l","a","n","c","e"," ","T","a","x">>, start |-> 115,
   title |-> <<"C","o","m","p","e","t","i","t","i","v","e"," ","B","a","l","a","n","c","e"," ","T","a","x">>] >>

RomanSet == {"i", "v", "x", "l", "c", "d", "m"}
ArticleRomanRx == <<Lit(<<"a","r","t","i","c","l","e">>), Ws1, Cls1(RomanSet)>>

\* label.match(/Article\s+([IVXLCDM]+)/i)[1].toUpperCase(), <<>> for null; with
\* bounded, the expression ends in \b
RomanOf(label, bounded) ==
  LET endAt(p) == The({IF ends = {} \/ (bounded /\ ~BoundaryAt(label, SetMax(ends))) THEN 0
                       ELSE SetMax(ends) : ends \in {EndsOf(label, ArticleRomanRx, 1, {p})}})
      at == {p \in 0..(Len(label) - 1) : endAt(p) > 0}
      e == endAt(SetMin(at))
  IN IF at = {} THEN <<>>
     ELSE toUpperCase(SubSeq(label, RunEnd(label, SetMin(at) + Len(<<"a","r","t","i","c","l","e">>) + 1, IsWs) + 1, e))

extractBaseArticleRoman(label) == RomanOf(label, FALSE)

\* buildArticleStartIndex: the least start of the keys of each roman numeral;
\* ArticleStart is articleIndex.get(roman), 0 for undefined
ArticleStart(pageMap, roman) ==
  LET starts == {pageMap[k].start : k \in {j \in 1..Len(pageMap) : RomanOf(pageMap[j].key, TRUE) = roman}}
  IN IF roman = <<>> \/ starts = {} THEN 0 ELSE SetMin(starts)

AnchorTo(page) ==
  <<"<","a"," ","h","r","e","f","=","\"","/","m","l","b","/","M","L","B","_","C","B","A","_","2","0","2","2",".","p","d","f","#","p","a","g","e","=">> \o NumText(page)
  \o <<"\""," ","t","a","r","g","e","t","=","\"","_","b","l","a","n","k","\""," ","r","e","l","=","\"","n","o","o","p","e","n","e","r"," ","n","o","r","e","f","e","r","r","e","r","\"",">","O","p","e","n"," ","p","a","g","e","<","/","a",">">>

makePdfLink(page) == <<"P","a","g","e"," ">> \o NumText(page) \o <<" ","EMDASH"," ">> \o AnchorTo(page)

\* quote.replace(/[“”]/g, '"').replace(/[’]/g, "'").replace(/[^\w\s$(),.-]/g, '')
\*      .toLowerCase().trim()
IsPhraseChar(c) == IsWordChar(c) \/ IsWs(c) \/ c \in {"$", "(", ")", ",", ".", "-"}
PhraseText(q) ==
  Trim(toLowerCase(SelectSeq(Arr([i \in 1..Len(q) |->
                                     IF q[i] \in {"LDQ", "RDQ"} THEN "\""
                                     ELSE IF q[i] = "RSQ" THEN "'" ELSE q[i]]), IsPhraseChar)))

\* the start page of the first window of 12, 10, 9, 8 or 7 tokens, of 25 characters
\* or more, that a title holds; 0 for null
findPageByQuote(pageMap, q) ==
  LET tokens == Words(PhraseText(q))
      windowSizes == <<12, 10, 9, 8, 7>>
      phraseAt(w, i) == Join(Slice(tokens, i, i + windowSizes[w]))
      hits(w, i) == {k \in 1..Len(pageMap) : Includes(toLowerCase(pageMap[k].title), phraseAt(w, i))}
      windows == {<<w, i>> \in (1..Len(windowSizes)) \X (0..Len(tokens)) :
                  /\ i + windowSizes[w] <= Len(tokens)
                  /\ Len(phraseAt(w, i)) >= 25
                  /\ hits(w, i) # {}}
      firstTry == CHOOSE t \in windows : \A u \in windows : t[1] < u[1] \/ (t[1] = u[1] /\ t[2] <= u[2])
  IN IF windows = {} THEN 0 ELSE pageMap[SetMin(hits(firstTry[1], firstTry[2]))].start

\* A) (CBA\s*\(2022[\s–-]*2026\)\s*,?\s*Article\s+[IVXLCDM]+(?:\([^;]*\))?)
\*    (?:;?\s*Page\s*\d+\s*—\s*(?:Open page)?|\s*)   with the flags gmi
CitationLabelRx ==
  <<Lit(<<"c","b","a">>), Ws0, Lit(<<"(","2","0","2","2">>), Cls0({" ", "\n", "\t", "ENDASH", "-"}), Lit(<<"2","0","2","6",")">>), Ws0,
    Opt(<<Lit(<<",">>)>>), Ws0>> \o ArticleRomanRx
CitationPageRx ==
  <<Opt(<<Lit(<<";">>)>>), Ws0, Lit(<<"p","a","g","e">>), Ws0, Cls1(DigitSet), Ws0, Lit(<<"EMDASH">>), Ws0,
    Opt(<<Lit(<<"o","p","e","n"," ","p","a","g","e">>)>>)>>

\* the end of (?:\([^;]*\))? tried at offset e: the last ")" before the next ";"
ParenEnd(s, e, IsInside(_)) ==
  LET closers == {k \in (e + 2)..RunEnd(s, e + 2, IsInside) : s[k] = ")"}
  IN IF e + 1 <= Len(s) /\ s[e + 1] = "(" /\ closers # {} THEN SetMax(closers) ELSE e

\* the match tried at offset p: [ok, label, end]
CitationMatchAt(s, p) ==
  The({IF labelEnds = {} THEN [ok |-> FALSE, label |-> <<>>, end |-> 0]
       ELSE The({The({[ok |-> TRUE, label |-> SubSeq(s, p + 1, e),
                       end |-> IF pageEnds # {} THEN SetMax(pageEnds) ELSE RunEnd(s, e + 1, IsWs)] :
                        pageEnds \in {EndsOf(s, CitationPageRx, 1, {e})}}) :
                   e \in {ParenEnd(s, SetMax(labelEnds), NotSemicolon)}}) :
         labelEnds \in {EndsOf(s, CitationLabelRx, 1, {p})}})

\* (match, articleLabel) => start ? `${articleLabel}; ${makePdfLink(start)}` : articleLabel
CitationRewritten(pageMap, label) ==
  The({IF start = 0 THEN label ELSE label \o <<";"," ">> \o makePdfLink(start) :
         start \in {ArticleStart(pageMap, extractBaseArticleRoman(label))}})

RECURSIVE RewriteCitations(_, _, _)
RewriteCitations(pageMap, s, from) ==
  The({IF at = {} THEN Slice(s, from, Len(s))
       ELSE The({Slice(s, from, SetMin(at)) \o CitationRewritten(pageMap, m.label)
                 \o RewriteCitations(pageMap, s, m.end) : m \in {CitationMatchAt(s, SetMin(at))}}) :
         at \in {{p \in from..(Len(s) - 1) : CitationMatchAt(s, p).ok}}})

\* B) (ARTICLE:\s*Article\s+[IVXLCDM]+(?:\([^|]*\))?\s*\|\s*PAGE:\s*)(\d+)
\*    ((?:.*\n\s*QUOTE:\s*".*")?)   with the flags gmi
ExcerptPrefixRx ==
  <<Lit(<<"a","r","t","i","c","l","e",":">>), Ws0>> \o ArticleRomanRx
  \o <<Opt(<<Lit(<<"(">>), NotCls0({"|"}), Lit(<<")">>)>>), Ws0, Lit(<<"|">>), Ws0, Lit(<<"p","a","g","e",":">>), Ws0>>
QuoteOpenRx == <<Lit(<<"\n">>), Ws0, Lit(<<"q","u","o","t","e",":">>), Ws0, Lit(<<"\"">>)>>

\* the end of (?:.*\n\s*QUOTE:\s*".*")? tried at offset d: the last quotation mark of
\* the QUOTE line that follows the rest of the line, or d
QuoteLineEnd(s, d) ==
  LET opens == EndsOf(s, QuoteOpenRx, 1, {RunEnd(s, d + 1, NotNewline)})
      closers == {k \in (SetMax(opens) + 1)..RunEnd(s, SetMax(opens) + 1, NotNewline) : s[k] = "\""}
  IN IF opens # {} /\ closers # {} THEN SetMax(closers) ELSE d

\* maybeQuoteLine.match(/QUOTE:\s*"([^"]+)"/i)[1], <<>> for no match
QuotedIn(line) ==
  LET bodyAt(p) ==
        LET open == RunEnd(line, p + Len(<<"q","u","o","t","e",":">>) + 1, IsWs) + 1
            close == RunEnd(line, open + 1, NotQuote) + 1
        IN IF MatchAtCI(line, p, <<"q","u","o","t","e",":">>) /\ open <= Len(line) /\ line[open] = "\""
              /\ close <= Len(line) /\ close > open + 1
           THEN SubSeq(line, open + 1, close - 1) ELSE <<>>
      at == {p \in 0..(Len(line) - 1) : bodyAt(p) # <<>>}
  IN IF at = {} THEN <<>> ELSE bodyAt(SetMin(at))

\* the match tried at offset p: [ok, prefix, whole, quoteLine, end]
ExcerptMatchAt(s, p) ==
  The({IF prefixEnds = {} \/ RunEnd(s, SetMax(prefixEnds) + 1, IsDigit) = SetMax(prefixEnds)
       THEN [ok |-> FALSE, prefix |-> <<>>, whole |-> <<>>, quoteLine |-> <<>>, end |-> 0]
       ELSE The({The({[ok |-> TRUE,
                       prefix |-> SubSeq(s, p + 1, SetMax(prefixEnds)),
                       whole |-> SubSeq(s, p + 1, e),
                       quoteLine |-> SubSeq(s, d + 1, e),
                       end |-> e] : e \in {QuoteLineEnd(s, d)}}) :
                   d \in {RunEnd(s, SetMax(prefixEnds) + 1, IsDigit)}}) :
         prefixEnds \in {EndsOf(s, ExcerptPrefixRx, 1, {p})}})

\* (whole, prefix, _pageNum, maybeQuoteLine) => ...: the page of the phrase when the
\* quote is found in a title, the start of the roman numeral otherwise
ExcerptRewritten(pageMap, m) ==
  The({The({IF mapped = 0 THEN m.whole
            ELSE m.prefix \o NumText(mapped) \o <<" ","EMDASH"," ">> \o AnchorTo(mapped) :
              mapped \in {IF QuotedIn(m.quoteLine) # <<>> /\ byPhrase # 0 THEN byPhrase
                          ELSE ArticleStart(pageMap, RomanOf(m.whole, FALSE))}}) :
         byPhrase \in {IF QuotedIn(m.quoteLine) = <<>> THEN 0
                       ELSE findPageByQuote(pageMap, QuotedIn(m.quoteLine))}})

RECURSIVE RewriteExcerpts(_, _, _)
RewriteExcerpts(pageMap, s, from) ==
  The({IF at = {} THEN Slice(s, from, Len(s))
       ELSE The({Slice(s, from, SetMin(at)) \o ExcerptRewritten(pageMap, m)
                 \o RewriteExcerpts(pageMap, s, m.end) : m \in {ExcerptMatchAt(s, SetMin(at))}}) :
         at \in {{p \in from..(Len(s) - 1) : ExcerptMatchAt(s, p).ok}}})

\* /PAGE:\s*(\d+)\s*—\s*Open page/g tried at offset p: [ok, page, end]
BarePageAt(s, p) ==
  LET ws1End == RunEnd(s, p + Len(<<"P","A","G","E",":">>) + 1, IsWs)
      dEnd == RunEnd(s, ws1End + 1, IsDigit)
      ws2End == RunEnd(s, dEnd + 1, IsWs)
      ws3End == RunEnd(s, ws2End + 2, IsWs)
  IN IF /\ MatchAt(s, p, <<"P","A","G","E",":">>)
        /\ dEnd > ws1End
        /\ ws2End + 1 <= Len(s) /\ s[ws2End + 1] = "EMDASH"
        /\ MatchAt(s, ws3End, <<"O","p","e","n"," ","p","a","g","e">>)
     THEN [ok |-> TRUE, page |-> SubSeq(s, ws1End + 1, dEnd), end |-> ws3End + Len(<<"O","p","e","n"," ","p","a","g","e">>)]
     ELSE [ok |-> FALSE, page |-> <<>>, end |-> 0]

RECURSIVE LinkBarePages(_, _)
LinkBarePages(s, from) ==
  The({IF at = {} THEN Slice(s, from, Len(s))
       ELSE The({Slice(s, from, SetMin(at)) \o <<"P","A","G","E",":"," ">> \o m.page \o <<" ","EMDASH"," ">> \o AnchorTo(TextNum(m.page))
                 \o LinkBarePages(s, m.end) : m \in {BarePageAt(s, SetMin(at))}}) :
         at \in {{p \in from..(Len(s) - 1) : BarePageAt(s, p).ok}}})

\* linkifyCitations(fullText) with the page map the module loaded
linkifyCitations(pageMap, fullText) ==
  IF fullText = <<>> THEN fullText
  ELSE LinkBarePages(RewriteExcerpts(pageMap, RewriteCitations(pageMap, fullText, 0), 0), 0)

\* ------------------------------------------------------------ inputs
MaxLinkLines == 2

KCited == <<"C","B","A"," ","(","2","0","2","2","ENDASH","2","0","2","6",")",","," ","A","r","t","i","c","l","e"," ","V","I","(","E",")","(","1",")","(","b",")",";"," ","P","a","g","e"," ","2","3"," ","EMDASH"," ","O","p","e","n"," ","p","a","g","e">>
KUnmapped == <<"C","i","t","a","t","i","o","n",":"," ","C","B","A"," ","(","2","0","2","2","ENDASH","2","0","2","6",")",","," ","A","r","t","i","c","l","e"," ","I","X","(","A",")">>
KExcerpt == <<"1",")"," ","A","R","T","I","C","L","E",":"," ","A","r","t","i","c","l","e"," ","V","I","(","E",")","(","1",")","(","b",")"," ","|"," ","P","A","G","E",":"," ","2","3">>
KQuote == <<"Q","U","O","T","E",":"," ","\"","T","h","e"," ","c","r","i","t","e","r","i","a"," ","w","i","l","l"," ","b","e"," ","t","h","e"," ","q","u","a","l","i","t","y"," ","o","f"," ","t","h","e"," ","P","l","a","y","e","r","'","s"," ","c","o","n","t","r","i","b","u","t","i","o","n","\"">>
KBare == <<"P","A","G","E",":"," ","7"," ","EMDASH"," ","O","p","e","n"," ","p","a","g","e">>
KProse == <<"S","u","m","m","a","r","y",":"," ","a"," ","P","l","a","y","e","r"," ","m","a","y"," ","g","o"," ","t","o"," ","a","r","b","i","t","r","a","t","i","o","n",".">>
LinkLines == {KCited, KUnmapped, KExcerpt, KQuote, KBare, KProse}

InitRelink ==
  /\ pc = "linkifyCitations"
  /\ linkText \in {JoinLines(ls) : ls \in SeqsUpTo(LinkLines, MaxLinkLines)}
  /\ relinked = <<>>
  /\ firstLinked = <<>>
  /\ linkPasses = 0
  /\ RelinkOthersIdle

\* const fixed = linkifyCitations(raw, ...)
LinkifyCitations ==
  /\ pc = "linkifyCitations"
  /\ \E out \in {linkifyCitations(PageMapFile, linkText)} :
       /\ relinked' = out
       /\ firstLinked' = IF linkPasses = 0 THEN out ELSE firstLinked
  /\ linkPasses' = linkPasses + 1
  /\ pc' = "linked"
  /\ UNCHANGED <<RelinkOthers, linkText>>

\* linkifyCitations applied to the text it returned
LinkAgain ==
  /\ pc = "linked"
  /\ linkPasses < 2
  /\ linkText' = relinked
  /\ relinked' = <<>>
  /\ pc' = "linkifyCitations"
  /\ UNCHANGED <<RelinkOthers, firstLinked, linkPasses>>

NextRelink ==
  \/ LinkifyCitations
  \/ LinkAgain

SpecRelink == InitRelink /\ [][NextRelink]_vars
\* -------------------------------------------------- getPagesJSON and PAGES_CACHE
NumPageRequests == 3
MaxFilePages == 2

PageRequests == 1..NumPageRequests
PagesFiles ==
  {Arr([k \in 1..Len(d) |-> [page |-> k, text |-> d[k]]]) : d \in SeqsUpTo({LExact, LNone}, MaxFilePages)}

\* a call of getPagesJSON: where it stands, PAGES_CACHE as its first line found
\* it, whether it called fetch, whether the response was ok, and what it returned
NewPageRequest ==
  [pc |-> "getPagesJSON", atEntry |-> Null, fetched |-> FALSE, ok |-> FALSE, returned |-> Null]

InitStore ==
  /\ pc = "serving"
  /\ PAGES_CACHE = Null
  /\ pagesFile \in PagesFiles
  /\ jsonReq = [r \in PageRequests |-> NewPageRequest]
  /\ assigned = <<>>
  /\ StoreOthersIdle

\* (a call that keeps the empty list it returns for a response that is not ok)
KeptEmpty(cur) == <<>>

\* if (!r.ok) return [];   PAGES_CACHE is not assigned (cur is the value it holds)
AfterNotOk(cur) == cur

\* if (PAGES_CACHE) return PAGES_CACHE;   ([] is truthy)
CacheGuard(r) ==
  /\ jsonReq[r].pc = "getPagesJSON"
  /\ IF PAGES_CACHE # Null
     THEN jsonReq' = [jsonReq EXCEPT ![r].pc = "returned", ![r].atEntry = PAGES_CACHE,
                                     ![r].returned = PAGES_CACHE]
     ELSE jsonReq' = [jsonReq EXCEPT ![r].pc = "fetch"]
  /\ UNCHANGED <<StoreOthers, pc, PAGES_CACHE, pagesFile, assigned>>

\* const r = await fetch(url, { cache: "no-store" }); if (!r.ok) return [];
\* the response is ok or not, or fetch rejects
FetchPages(r) ==
  /\ jsonReq[r].pc = "fetch"
  /\ \E outcome \in {"ok", "notOk", "rejected"} :
       /\ jsonReq' =
            [jsonReq EXCEPT ![r].fetched = TRUE,
                            ![r].ok = (outcome = "ok"),
                            ![r].pc = CASE outcome = "ok" -> "json"
                                        [] outcome = "notOk" -> "returned"
                                        [] OTHER -> "thrown",
                            ![r].returned = IF outcome = "notOk" THEN <<>> ELSE Null]
       /\ PAGES_CACHE' = IF outcome = "notOk" THEN AfterNotOk(PAGES_CACHE) ELSE PAGES_CACHE
  /\ UNCHANGED <<StoreOthers, pc, pagesFile, assigned>>

\* PAGES_CACHE = await r.json(); return PAGES_CACHE;   the body parses or r.json() rejects
ReadJson(r) ==
  /\ jsonReq[r].pc = "json"
  /\ \E parses \in BOOLEAN :
       IF parses
       THEN /\ PAGES_CACHE' = pagesFile
            /\ assigned' = Append(assigned, pagesFile)
            /\ jsonReq' = [jsonReq EXCEPT ![r].pc = "returned", ![r].returned = pagesFile]
       ELSE /\ jsonReq' = [jsonReq EXCEPT ![r].pc = "thrown"]
            /\ UNCHANGED <<PAGES_CACHE, assigned>>
  /\ UNCHANGED <<StoreOthers, pc, pagesFile>>

NextStore ==
  \/ \E r \in PageRequests : CacheGuard(r)
  \/ \E r \in PageRequests : FetchPages(r)
  \/ \E r \in PageRequests : ReadJson(r)

SpecStore == InitStore /\ [][NextStore]_vars

\* -------------------------------------------------- claims on attachVerification
IsPageSeparator(c) == IsWs(c) \/ c \in {":", "="}

\* the numbers a text states as pages: "Page 7", "PAGE: 7", "#page=7"
PageMentions(s) ==
  LET numAt(i) ==
        LET sepEnd == RunEnd(s, i + Len(<<"p","a","g","e">>) + 1, IsPageSeparator)
            dEnd == RunEnd(s, sepEnd + 1, IsDigit)
        IN IF MatchAtCI(s, i, <<"p","a","g","e">>) /\ dEnd >= sepEnd + 1
           THEN SubSeq(s, sepEnd + 1, dEnd) ELSE <<>>
  IN {TextNum(numAt(i)) : i \in {k \in 0..(Len(s) - 1) : numAt(k) # <<>>}}

\* the pages the locator or the ranking resolved in this call
ResolvedPages == {foundHits[j].page : j \in 1..Len(foundHits)}
WrittenPages == PageMentions(citation) \cup UNION {PageMentions(bullets[j]) : j \in 1..Len(bullets)}
\* the page numbers the excerpt items of the answer state
HintedPages == UNION {PageMentions(items[k].article) : k \in 1..Len(items)}

\* C1: every page number written into the Citation line or a source bullet is a
\* page the locator or the ranking resolved; a page number the answer states in an
\* excerpt item never shows up there
C1_OnlyResolvedPagesWritten ==
  pc = "returned" => WrittenPages \subseteq ResolvedPages

\* the document has pages, the quote of an item was found, and the Citation line
\* carries the page number the item stated, which no page of the call resolved to
C1_HintedPageInCitation ==
  /\ pc = "returned"
  /\ Len(pages) > 0
  /\ Len(foundHits) > 0
  /\ \E n \in HintedPages : n \in PageMentions(citation) /\ n \notin ResolvedPages

\* the ranking ran and no page shares a term with the question and the answer
NothingQualifies == Len(foundHits) = 0 \/ (Len(scores) = 1 /\ scores[1].s = 0)

\* C3: when no item resolves and the fallback has no qualifying page, the returned
\* text says "page not found" and no page is cited: no Citation page, no bullet
C3_PageNotFoundMarker ==
  pc = "returned" /\ NothingQualifies =>
    /\ Includes(toLowerCase(result.text), <<"p","a","g","e"," ","n","o","t"," ","f","o","u","n","d">>)
    /\ PageMentions(citation) = {}
    /\ Len(bullets) = 0

\* no page scores above zero, and the first page of the document is cited
C3_FirstPageCited ==
  /\ pc = "returned"
  /\ Len(pages) > 0
  /\ Len(scores) = 1 /\ scores[1].s = 0
  /\ result.page = pages[1].num
  /\ Len(bullets) = 1
  /\ pages[1].num \in PageMentions(citation)

\* C4: the call goes on past loading only with a non-empty page list
C4_NoEmptyPageList ==
  pc \in {"mapQuotes", "fallback", "inject", "returned"} => Len(pages) > 0

\* the index and the PDF are served but hold no page, and page 1 is cited
C4_EmptyDocumentCited ==
  /\ pc = "returned"
  /\ Len(pages) = 0
  /\ result.page = 1
  /\ 1 \in PageMentions(citation)

\* neither the index nor the PDF is served: the call throws
C4_UnreachableThrows ==
  /\ pc = "thrown"
  /\ source = "none"
  /\ result = NoResult

\* C8: the second call, on the text the first returned, resolves the pages of the
\* first: the same primary page and the same set of bullet pages
C8_SecondPassSamePages ==
  pc = "returned" /\ pass = 2 =>
    /\ result.page = firstPass.page
    /\ ResolvedPages = firstPass.pages

\* the excerpts follow the Citation block: the first call lists two pages, the
\* second call one
C8_ExcerptsAfterCitationLost ==
  /\ pc = "returned" /\ pass = 2
  /\ Cardinality(firstPass.pages) = 2
  /\ Cardinality(ResolvedPages) = 1
  /\ Len(items) = 0

\* the page each bullet cites, in the order of the bullets
CitedPages == Arr([j \in 1..Len(bullets) |-> PageNumberIn(bullets[j])])

\* C14: the bullets of one returned text number at most 4 and cite pairwise
\* different pages
C14_AtMostFourDistinctPages ==
  pc = "returned" =>
    /\ Len(bullets) <= MaxItems
    /\ \A i, j \in 1..Len(bullets) : i # j => CitedPages[i] # CitedPages[j]

\* the bullets never number more than 4
C14_AtMostFour == Len(bullets) <= MaxItems

\* two excerpt items resolve to the same page and the page is cited by two bullets
C14_SamePageTwice ==
  /\ pc = "returned"
  /\ Len(items) >= 2
  /\ Len(bullets) = 2
  /\ CitedPages[1] = CitedPages[2]
  /\ foundHits[1].page = foundHits[2].page

\* the answer has no excerpts block, or a block that yields no item
NoItemParsed == Len(parseLegalExcerpts(answerText)) = 0

\* C15: when the excerpts block is missing or yields no item and the document has
\* pages, the call does not throw and does not return without a source: it ranks
\* the pages over the question and the answer text, and the one bullet, the
\* Citation line and the returned page are of a page with the highest score
C15_MissingExcerptsFallBack ==
  pc \in {"thrown", "inject", "returned"} /\ NoItemParsed =>
    /\ pc = "thrown" => source = "none"
    /\ pc \in {"inject", "returned"} /\ Len(pages) > 0 =>
         /\ Len(scores) = 1
         /\ \A all \in {bm25Scores(pages, questionText, answerText)} :
              \A j \in 1..Len(pages) : all[j].s <= scores[1].s
         /\ CitedPages = <<scores[1].num>>
    /\ pc = "returned" /\ Len(pages) > 0 =>
         /\ result.page = scores[1].num
         /\ scores[1].num \in PageMentions(citation)
         /\ Includes(result.text, citation)
         /\ Includes(result.text, bullets[1])

\* an answer whose excerpts block holds no item is returned with the bullet of the
\* second page, which the ranking scored above the first
C15_GarbledBlockRanked ==
  /\ pc = "returned"
  /\ pass = 1
  /\ answerText = AGarbled
  /\ Len(pages) = 2
  /\ CitedPages = <<2>>
  /\ result.page = 2

\* an answer without an excerpts block is returned with the bullet of the ranking
C15_NoBlockRanked ==
  /\ pc = "returned"
  /\ pass = 1
  /\ answerText = ANone
  /\ Len(pages) = 2
  /\ Len(scores) = 1 /\ scores[1].s > 0
  /\ CitedPages = <<scores[1].num>>

\* -------------------------------------------------- claims on the Quote Locator
Positions == 1..Len(pages)
\* page k holds the quote as an exact normalized substring
ExactOn(k) == exactIndexOf(pages[k].text, quote) >= 0
\* page k holds a token window that passes the fuzzy gate
FuzzyOn(k) == fuzzy[k] >= 0
\* page k is a page of preferRange (any page when no range is given)
InPrefer(k) ==
  IsNull(preferRange) \/ (pages[k].num >= preferRange.start /\ pages[k].num <= preferRange.end)
ExactHitAt(k) == hit.page = pages[k].num /\ hit.idx = exactIndexOf(pages[k].text, quote)
FuzzyHitAt(k) == hit.page = pages[k].num /\ hit.idx = fuzzy[k]
InExact == {k \in Positions : InPrefer(k) /\ ExactOn(k)}
InFuzzy == {k \in Positions : InPrefer(k) /\ FuzzyOn(k)}
AnyExact == {k \in Positions : ExactOn(k)}
AnyFuzzy == {k \in Positions : FuzzyOn(k)}

\* C5: the locator applies its stages in strict order: the first in-range page with
\* an exact match; else the first in-range page with a fuzzy match; else, when a
\* range was given, the first page of the document with an exact match, then the
\* first with a fuzzy match; and null exactly when no page of the document matches
C5_StagedOrder ==
  pc = "located" =>
    /\ InExact # {} => ExactHitAt(SetMin(InExact))
    /\ InExact = {} /\ InFuzzy # {} => FuzzyHitAt(SetMin(InFuzzy))
    /\ InExact = {} /\ InFuzzy = {} /\ AnyExact # {} => ExactHitAt(SetMin(AnyExact))
    /\ InExact = {} /\ InFuzzy = {} /\ AnyExact = {} /\ AnyFuzzy # {}
         => FuzzyHitAt(SetMin(AnyFuzzy))
    /\ hit = NullHit <=> AnyExact \cup AnyFuzzy = {}

\* a range was given, no page in it matches, and the hit is a page outside it
C5_GlobalStageReached ==
  /\ pc = "located"
  /\ ~IsNull(preferRange)
  /\ InExact \cup InFuzzy = {}
  /\ \E k \in Positions : ~InPrefer(k) /\ ExactHitAt(k)

\* C6 as stated: whenever some page holds the quote exactly, the hit is an exact
\* match on such a page, whatever range was passed
C6_ExactAlwaysWins ==
  pc = "located" /\ AnyExact # {} => \E k \in AnyExact : ExactHitAt(k)

\* C6 amended: an exact match among the candidate pages (the pages of preferRange,
\* or all pages without one) beats every fuzzy match; an exact match outside the
\* range is returned when the range holds no match at all, and is passed over only
\* for a fuzzy match inside the range
C6_ExactWinsAmongCandidates ==
  pc = "located" =>
    /\ InExact # {} => ExactHitAt(SetMin(InExact))
    /\ InExact \cup InFuzzy = {} /\ AnyExact # {} => ExactHitAt(SetMin(AnyExact))
    /\ (AnyExact # {} /\ ~\E k \in AnyExact : ExactHitAt(k))
         => ~IsNull(preferRange) /\ InExact = {} /\ InFuzzy # {} /\ FuzzyHitAt(SetMin(InFuzzy))

\* an earlier candidate page passes the fuzzy gate without holding the quote, and
\* the hit is the exact match on a later page
C6_ExactBeatsEarlierFuzzy ==
  /\ pc = "located"
  /\ \E k \in Positions : \E j \in 1..(k - 1) :
       InPrefer(j) /\ FuzzyOn(j) /\ ~ExactOn(j) /\ InPrefer(k) /\ ExactHitAt(k)

\* the most quote tokens a window of page k shares
BestShare(k) == fuzzyBestWindow(pages[k].text, quote).score

\* C7: a page passes the fuzzy gate exactly when its best window shares at least
\* 55% of the quote's n tokens
C7_FuzzyGate ==
  pc # "fuzzyBestIndex" =>
    \A k \in Positions :
      Len(tokenize(quote)) > 0 =>
        (fuzzy[k] >= 0 <=> 100 * BestShare(k) >= FuzzyPercent * Len(tokenize(quote)))

\* a best window sharing 55 of 100 tokens is turned down
C7_FiftyFiveOfHundredRejected ==
  /\ pc # "fuzzyBestIndex"
  /\ \E k \in Positions :
       Len(tokenize(quote)) = 100 /\ BestShare(k) = 55 /\ fuzzy[k] = -1

\* for ten tokens, five shared are turned down and six are accepted
C7_TenTokenBoundary ==
  /\ pc # "fuzzyBestIndex"
  /\ Len(tokenize(quote)) = 10
  /\ \E j \in Positions : BestShare(j) = 5 /\ fuzzy[j] = -1
  /\ \E k \in Positions : BestShare(k) = 6 /\ fuzzy[k] >= 0

\* -------------------------------------------------- claims on the heading index
\* the positions of the pages whose first PageStartChars characters hold a heading
HeadingPages == {k \in 1..Len(pages) : HasHeading(pages[k])}
Covered(n) == \E i \in 1..Len(articleRanges) : articleRanges[i].start <= n /\ n <= articleRanges[i].end
PageNums == {pages[k].num : k \in 1..Len(pages)}

\* C9 as stated: the ranges are contiguous, do not overlap, and together cover
\* every page of the document
C9_RangesCoverEveryPage ==
  pc = "ranged" =>
    /\ \A i \in 1..Len(articleRanges) : articleRanges[i].start <= articleRanges[i].end
    /\ \A i \in 1..(Len(articleRanges) - 1) : articleRanges[i + 1].start = articleRanges[i].end + 1
    /\ \A n \in PageNums : Covered(n)

\* C9 amended: one range per detected heading, ordered, each ending one page before
\* the next begins and the last ending on the last page; the ranges cover exactly
\* the pages from the first heading on, so the pages before the first heading, and
\* every page of a document without headings, lie in no range
C9_RangesCoverFromFirstHeading ==
  pc = "ranged" =>
    /\ Len(articleRanges) = Cardinality(HeadingPages)
    /\ \A i \in 1..Len(articleRanges) : articleRanges[i].start <= articleRanges[i].end
    /\ \A i \in 1..(Len(articleRanges) - 1) : articleRanges[i + 1].start = articleRanges[i].end + 1
    /\ \A i \in 1..Len(articleRanges) : articleRanges[i].start \in {pages[k].num : k \in HeadingPages}
    /\ Len(articleRanges) > 0 => articleRanges[Len(articleRanges)].end = pages[Len(pages)].num
    /\ \A n \in PageNums : Covered(n) <=> (HeadingPages # {} /\ n >= pages[SetMin(HeadingPages)].num)

\* two headings after a page without one: two adjacent ranges, the first page in none
C9_PagesBeforeFirstHeading ==
  /\ pc = "ranged"
  /\ Len(articleRanges) >= 2
  /\ articleRanges[1].start > 1
  /\ ~Covered(1)

\* the heading line of page k: from a line-initial upper-case ARTICLE up to the end
\* of the line, when a dash or colon follows the numeral; <<>> otherwise
HeadingLine(text) ==
  LET at == {i \in 0..(Len(text) - 1) :
               /\ MatchAt(text, i, <<"A","R","T","I","C","L","E"," ">>)
               /\ (i = 0 \/ text[i] = "\n")
               /\ ArticleTitleEndAt(text, i) > 0}
      i == SetMin(at)
      romanEnd == RunEnd(text, i + Len(<<"A","R","T","I","C","L","E"," ">>) + 1, IsRoman)
  IN IF at = {} THEN <<>>
     ELSE IF romanEnd < Len(text) /\ text[romanEnd + 1] \in {"EMDASH", "ENDASH", "-", ":"}
          THEN SubSeq(text, i + 1, RunEnd(text, i + 1, NotNewline))
          ELSE <<>>

\* C10: a range is opened only by a page that carries a heading line (ARTICLE, a
\* roman numeral, a separating dash) at its start, and the title kept for the range
\* is that heading line
C10_HeadingLineOnly ==
  pc = "ranged" =>
    \A i \in 1..Len(articleRanges) :
      \E k \in 1..Len(pages) :
        /\ pages[k].num = articleRanges[i].start
        /\ HeadingLine(pages[k].text) # <<>>
        /\ articleRanges[i].title = HeadingLine(pages[k].text)

\* a page that only refers to an article in running text opens a range
C10_ReferenceOpensRange ==
  /\ pc = "ranged"
  /\ \E i \in 1..Len(articleRanges) :
       \E k \in 1..Len(pages) :
         /\ pages[k].num = articleRanges[i].start
         /\ HeadingLine(pages[k].text) = <<>>

\* a page with a heading line opens a range whose title differs from the line
C10_TitleNotHeadingLine ==
  /\ pc = "ranged"
  /\ \E i \in 1..Len(articleRanges) :
       \E k \in 1..Len(pages) :
         /\ pages[k].num = articleRanges[i].start
         /\ HeadingLine(pages[k].text) # <<>>
         /\ articleRanges[i].title # HeadingLine(pages[k].text)

\* -------------------------------------------------- claims on the bullets
\* the verification block lists quote q as the excerpt of page n
ShownOnPage(n, q) ==
  Includes(verification, VerificationBullet([page |-> n, quote |-> q, snippet |-> <<>>], PDF_URL))
\* the page text holds q: as an exact normalized substring, or in a token window
\* that passes the 55% gate
PageHolds(text, q) == exactIndexOf(text, q) >= 0 \/ fuzzyBestIndex(text, q) >= 0

\* C2: a bullet "Page n — quote" is listed only when page n holds the quote, exactly
\* or in a window sharing at least 55% of its tokens; a quote whose best page shares
\* nothing with it gets no bullet
C2_BulletQuoteIsOnItsPage ==
  pc = "responded" =>
    \A k \in 1..Len(pagesJSON) : \A j \in 1..Len(quotes) :
      ShownOnPage(pagesJSON[k].page, quotes[j]) => PageHolds(pagesJSON[k].text, quotes[j])

\* a quote that shares no token with any page is listed as the excerpt of page 1
C2_InventedQuoteOnFirstPage ==
  /\ pc = "responded"
  /\ Len(pagesJSON) > 0
  /\ \E j \in 1..Len(quotes) :
       /\ \A k \in 1..Len(pagesJSON) :
            scoreByTokens(normalize(pagesJSON[k].text), quotes[j]).hit = 0
       /\ ShownOnPage(pagesJSON[1].page, quotes[j])

\* -------------------------------------------------- claims on the BM25 linker
RankIdx == buildPageIndex(pages)
QueryNow == RankQuery(questionText, answerText)
\* the (at most two) rarest query tokens of the call
RareNow == GatedTokens(QueryNow.tokens, dfMap(RankIdx, Range(QueryNow.tokens), FALSE))
PassesGate(k) == HasRare(RankIdx[k].lower, RareNow)
WinnerPages == {winners[j].num : j \in 1..Len(winners)}
BulletPages == {PageNumberIn(bullets[j]) : j \in 1..Len(bullets)}

\* C11: a page that holds none of the rarest query tokens is not in the ranking
\* bm25Score returned and is not the page of a bullet or of the Citation line, also
\* when no page passes the gate
C11_GatedPagesNeverCited ==
  pc \in {"compose", "returned"} =>
    \A k \in 1..Len(pages) :
      ~PassesGate(k) =>
        pages[k].num \notin WinnerPages \cup BulletPages \cup PageMentions(citation)

\* the ranking itself holds only pages that pass the gate
C11_WinnersPassGate ==
  \A k \in 1..Len(pages) : pages[k].num \in WinnerPages => PassesGate(k)

\* no page passes the gate, and the first page is the page of the bullet and of the
\* Citation line
C11_UngatedFirstPageCited ==
  /\ pc = "returned"
  /\ winners = <<>>
  /\ \A k \in 1..Len(pages) : ~PassesGate(k)
  /\ BulletPages = {pages[1].num}
  /\ PageMentions(citation) = {pages[1].num}

\* the pages that hold a term of the question no other page holds
DistinctivePages ==
  {k \in 1..Len(pages) :
     \E t \in Range(rankTokenize(questionText)) :
       /\ t \in Range(RankIdx[k].toks)
       /\ \A j \in 1..Len(pages) : j # k => t \notin Range(RankIdx[j].toks)}

\* C12: when the question has a distinctive term that one page alone holds, that
\* page passes the gate and is the top candidate of the ranking, whatever other
\* tokens the question and the answer hold
C12_DistinctivePageRanksTop ==
  pc \in {"compose", "returned"} /\ Cardinality(DistinctivePages) = 1 =>
    \A k \in DistinctivePages :
      /\ PassesGate(k)
      /\ Len(winners) > 0
      /\ winners[1].num = pages[k].num

\* one page alone holds "waivers", the question asks about waivers with words no
\* page holds, and the page is behind the gate: another page is cited
C12_DistinctivePageGatedOut ==
  /\ pc = "returned"
  /\ \E k \in DistinctivePages :
       /\ DistinctivePages = {k}
       /\ ~PassesGate(k)
       /\ winners = <<>>
       /\ result.page # pages[k].num

\* the question holds the distinctive term alone, and the page is the top candidate
C12_DistinctivePageOnTop ==
  /\ pc = "returned"
  /\ Len(pages) > 1
  /\ \E k \in DistinctivePages :
       /\ DistinctivePages = {k}
       /\ PassesGate(k)
       /\ Len(winners) > 0 /\ winners[1].num = pages[k].num
       /\ result.page = pages[k].num

\* C13: two or more bullets of one call all cite pages of the Article range that
\* holds the anchor page
C13_BulletsWithinAnchorRange ==
  pc = "returned" /\ Len(bullets) >= 2 =>
    /\ ~IsNull(articleForPage(articleRanges, anchor.num))
    /\ \A n \in BulletPages :
         /\ n >= articleForPage(articleRanges, anchor.num).start
         /\ n <= articleForPage(articleRanges, anchor.num).end

\* two bullets are emitted while a page of the ranking lies outside the anchor range
C13_TwoBulletsWinnerOutside ==
  /\ pc = "returned"
  /\ Len(bullets) >= 2
  /\ \E n \in WinnerPages :
       \/ n < articleForPage(articleRanges, anchor.num).start
       \/ n > articleForPage(articleRanges, anchor.num).end

\* -------------------------------------------------- claims on the handler
\* C16: once the handler has read the answer of the completed run, its response is
\* 200 with that answer: the text attachVerification returned, which opens with
\* the answer less its Citation tail, or, when attachVerification threw, raw
\* itself; it is never the error text
C16_AnswerAlwaysReturned ==
  pc = "responded" /\ raw # <<>> =>
    /\ res.code = 200
    /\ res.result # ServerErrorText
    /\ result = NoResult => res.result = raw
    /\ result # NoResult =>
         /\ res.result = result.text
         /\ MatchAt(res.result, 0, Trim(StripCitation(raw)))

\* neither the index nor the PDF is served, attachVerification threw and the
\* response is the assistant's text
C16_ThrowRespondsRaw ==
  /\ pc = "responded"
  /\ source = "none"
  /\ result = NoResult
  /\ raw = ANone
  /\ res = [code |-> 200, result |-> ANone]

\* -------------------------------------------------- claims on the page cache
\* the page list of one population of the cache from the published PDF
OnePopulation == [norm |-> Arr([i \in 1..Len(pdf) |-> NormPage(pdf[i])]), raw |-> pdf]

ColdRequests == {r \in Requests : req[r].cold}

\* C17: the cache is assigned only by requests whose guard found it absent, once
\* each; once assigned it holds the page list of one population, whichever request
\* assigned it last; every read of every request returns that page list
C17_CachePopulatedOnceReadOnly ==
  pc = "serving" =>
    /\ populations <= Cardinality(ColdRequests)
    /\ (populations = 0) = (_normPages = Null)
    /\ (_normPages = Null) = (_rawPages = Null)
    /\ _normPages # Null => [norm |-> _normPages, raw |-> _rawPages] = OnePopulation
    /\ \A r \in Requests : \A k \in 1..Len(req[r].seen) : req[r].seen[k] = OnePopulation

\* two requests raced on the cold cache of a PDF of two pages: both populated it
\* and both read the same page list in each of their reads
C17_RacingPopulations ==
  /\ pc = "serving"
  /\ Len(pdf) = 2
  /\ populations = 2
  /\ \A r \in Requests : req[r].pc = "done" /\ req[r].seen = <<OnePopulation, OnePopulation>>

\* a request that came after the population read the cache without populating it
C17_WarmRequestReads ==
  /\ pc = "serving"
  /\ populations = 1
  /\ \E r \in Requests : ~req[r].cold /\ req[r].pc = "done"

\* the cache holds every page of the PDF, the two arrays page by page
WholeCache(normTexts, rawTexts) ==
  /\ normTexts # Null /\ rawTexts # Null
  /\ Len(normTexts) = Len(rawTexts)
  /\ Len(rawTexts) = Len(pdf)
  /\ \A i \in 1..Len(pdf) : rawTexts[i] = pdf[i] /\ normTexts[i] = NormPage(pdf[i])

\* C26: in every interleaving, once a call's ensurePagesLoaded has returned, the
\* two arrays are set, of one length, and entry i of each is page i + 1 of one
\* load; so is what each of its reads found
C26_NoHalfPopulatedCache ==
  pc = "serving" =>
    \A r \in Requests :
      /\ req[r].pc \in {"loaded", "done"} => WholeCache(_normPages, _rawPages)
      /\ \A k \in 1..Len(req[r].seen) : WholeCache(req[r].seen[k].norm, req[r].seen[k].raw)

\* one call reads the cache while the other, which found it absent, has loaded one
\* page of two
C26_ReadWhileOtherLoads ==
  /\ pc = "serving"
  /\ Len(pdf) = 2
  /\ \E r, o \in Requests :
       /\ req[r].pc = "done"
       /\ req[o].pc = "getPage" /\ Len(req[o].raw) = 1
\* -------------------------------------------------- claims on the snippet
\* the page text as snippetAround cuts it, and its words
SnipNormalized == Trim(CollapseWs(snipPage))
PageWords == Words(SnipNormalized)
SnipWords == Words(snip)

\* C18: the first and the last word of a snippet are whole words of the page text
C18_SnippetOfWholeWords ==
  pc = "snipped" /\ Len(SnipWords) > 0 =>
    /\ \E k \in 1..Len(PageWords) : PageWords[k] = SnipWords[1]
    /\ \E k \in 1..Len(PageWords) : PageWords[k] = SnipWords[Len(SnipWords)]

\* the page is longer than the window, the snippet is the window as cut, and its
\* last word is the head of a word of the page, not a word of the page
C18_WindowCutsWord ==
  /\ pc = "snipped"
  /\ Len(SnipNormalized) > snipIdx + SnippetAfter
  /\ snip = Trim(Slice(SnipNormalized, Max(0, snipIdx - SnippetBefore), snipIdx + SnippetAfter))
  /\ ~IsWs(SnipNormalized[snipIdx + SnippetAfter]) /\ ~IsWs(SnipNormalized[snipIdx + SnippetAfter + 1])
  /\ \A k \in 1..Len(PageWords) : PageWords[k] # SnipWords[Len(SnipWords)]

\* C19: of a page text of at least 25 words, the snippet has 25 to 45 words
C19_SnippetWordBand ==
  pc = "snipped" /\ Len(PageWords) >= SnippetMinWords =>
    /\ Len(SnipWords) >= SnippetMinWords
    /\ Len(SnipWords) <= SnippetMaxWords

\* the snippet never has more than 45 words
C19_AtMostMaxWords == pc = "snipped" => Len(SnipWords) <= SnippetMaxWords

\* a page of 30 words, the snippet around its first character has fewer than 25
C19_FewWordsInWindow ==
  /\ pc = "snipped"
  /\ Len(PageWords) >= SnippetMinWords
  /\ snipIdx = 0
  /\ Len(SnipWords) > 0
  /\ Len(SnipWords) < SnippetMinWords

\* a page of more than 45 words is cut to a snippet of 45
C19_LongPageCut ==
  /\ pc = "snipped"
  /\ Len(PageWords) > SnippetMaxWords
  /\ Len(SnipWords) = SnippetMaxWords

\* the offsets of the normalized page text at which the snippet stands and covers
\* the offset of the hit
CoveringOffsets ==
  {k \in Max(0, snipIdx - Len(snip) + 1)..snipIdx : MatchAt(SnipNormalized, k, snip)}

\* C20: the snippet of an exact hit covers the offset where the match begins
C20_SnippetCoversMatchStart ==
  pc = "snipped" /\ snipFrom = "exact" => CoveringOffsets # {}

\* the quote opens the page, and the snippet starts after the first words of the
\* quote: it holds no text of the page before its third word
C20_MatchAtPageStartCut ==
  /\ pc = "snipped" /\ snipFrom = "exact"
  /\ snipIdx = 0
  /\ Len(PageWords) > SnippetMaxWords
  /\ snip = Join(Slice(PageWords, 2, 2 + SnippetMaxWords))
  /\ CoveringOffsets = {}

\* the quote closes the page and the snippet covers the offset of the match
C20_MatchAtPageEndCovered ==
  /\ pc = "snipped" /\ snipFrom = "exact"
  /\ snipIdx + Len(snipQuote) = Len(SnipNormalized)
  /\ CoveringOffsets # {}

\* -------------------------------------------------- claims on the excerpts parser
\* the (label, quote) items of the first 4 entries, in order
ExpectedItems ==
  Arr([k \in 1..Min(Len(entries), MaxItems) |-> [article |-> EntryLabels[k], quote |-> EntryQuotes[k]]])

\* C21: the parser returns the (label, quote) items of the first 4 entries in
\* order, numbered or not, with a page hint or not
C21_SameItemsUnderDrift == pc = "parsed" => parsed = ExpectedItems

\* of entries that are all numbered and carry no hint the parser returns the items
\* of the first 4 in order
C21_NumberedPlainParsed ==
  pc = "parsed" /\ (\A k \in 1..Len(entries) : entries[k].numbered /\ ~entries[k].hint) =>
    parsed = ExpectedItems

\* the items are at most 4
C21_AtMostFourItems == Len(parsed) <= MaxItems

\* one entry without a number is not returned
C21_UnnumberedEntryDropped ==
  /\ pc = "parsed"
  /\ entries = <<[numbered |-> FALSE, hint |-> FALSE]>>
  /\ parsed = <<>>

\* the page hint of a numbered entry is returned as part of its label
C21_HintKeptInLabel ==
  /\ pc = "parsed"
  /\ entries = <<[numbered |-> TRUE, hint |-> TRUE]>>
  /\ parsed = <<[article |-> EntryLabels[1] \o EntryHint, quote |-> EntryQuotes[1]]>>

\* five numbered entries without hints: the first four are returned
C21_FiveEntriesFourItems ==
  /\ pc = "parsed"
  /\ Len(entries) = 5
  /\ Len(parsed) = 4
  /\ parsed = ExpectedItems

\* -------------------------------------------------- claims on the line scanner
ScanIn == SplitLines(scanText)
ScanOut == SplitLines(linked)

Resolves(label) == StartPageIn(KEY_INDEX, label) # 0

CitResolvedLinked ==
  <<"C","i","t","a","t","i","o","n",":"," ","C","B","A"," ","(","2","0","2","2","ENDASH","2","0","2","6",")",","," ","A","r","t","i","c","l","e"," ","V","I","(","E",")","(","1",")","(","b",")",";"," ","P","a","g","e"," ","4","0"," ","EMDASH"," ">> \o OpenPageAnchor(40)
PageLineLinked(startPage) == <<"P","A","G","E",":"," ">> \o NumText(startPage) \o <<" ","EMDASH"," ">> \o OpenPageAnchor(startPage)

\* the label of the ARTICLE line that opens the entry of line i: the line before
\* it, after a header line
EntryLabelAt(i) ==
  IF i >= 3 /\ (\E h \in 1..(i - 2) : ScanIn[h] = HeaderLine)
  THEN (IF ScanIn[i - 1] = ArtResolved THEN <<"A","r","t","i","c","l","e"," ","X","X","I","I","I","(","B",")","(","3",")">>
        ELSE IF ScanIn[i - 1] = ArtHinted THEN <<"A","r","t","i","c","l","e"," ","I","V">>
        ELSE IF ScanIn[i - 1] = ArtUnresolved THEN <<"A","r","t","i","c","l","e"," ","X","L">>
        ELSE <<>>)
  ELSE <<>>

\* the label of line i: of a Citation line, of a hinted ARTICLE line, of the entry
\* of a PAGE line
LabelAt(i) ==
  IF ScanIn[i] = CitResolved THEN <<"A","r","t","i","c","l","e"," ","V","I","(","E",")","(","1",")","(","b",")">>
  ELSE IF ScanIn[i] = CitUnresolved THEN <<"A","r","t","i","c","l","e"," ","X","L">>
  ELSE IF ScanIn[i] = ArtHinted THEN <<"A","r","t","i","c","l","e"," ","I","V">>
  ELSE IF ScanIn[i] = PageLine THEN EntryLabelAt(i)
  ELSE <<>>

\* C22: every Citation line with a label the page map resolves is returned with the
\* mapped start page, wherever it stands; every PAGE line of an entry with such a
\* label is returned with the mapped start page; the page number of the model, 23,
\* is returned only on lines whose label the page map does not resolve
C22_ResolvedLinesRewritten ==
  pc = "linked" =>
    /\ Len(ScanOut) = Len(ScanIn)
    /\ \A i \in 1..Len(ScanIn) :
         /\ ScanIn[i] = CitResolved /\ Resolves(LabelAt(i)) => ScanOut[i] = CitResolvedLinked
         /\ ScanIn[i] = PageLine /\ EntryLabelAt(i) # <<>> /\ Resolves(EntryLabelAt(i)) =>
              ScanOut[i] = PageLineLinked(StartPageIn(KEY_INDEX, EntryLabelAt(i)))
         /\ Includes(ScanOut[i], <<"2","3">>) /\ LabelAt(i) # <<>> => ~Resolves(LabelAt(i))

\* the lines the scanner does rewrite: a resolved Citation line before any header,
\* and the PAGE line of an entry with a resolved label
C22_RewrittenOutsideBlock ==
  pc = "linked" =>
    \A i \in 1..Len(ScanIn) :
      /\ ScanIn[i] = CitResolved /\ Resolves(LabelAt(i)) /\ (\A h \in 1..i : ScanIn[h] # HeaderLine) =>
           ScanOut[i] = CitResolvedLinked
      /\ ScanIn[i] = PageLine /\ EntryLabelAt(i) # <<>> /\ Resolves(EntryLabelAt(i)) =>
           ScanOut[i] = PageLineLinked(StartPageIn(KEY_INDEX, EntryLabelAt(i)))

\* a Citation line with a resolved label follows the header and is returned as it
\* was, with the page number of the model
C22_CitationAfterHeaderKept ==
  /\ pc = "linked"
  /\ KEY_INDEX = LoadedIndex
  /\ ScanIn = <<CitResolved, HeaderLine, CitResolved>>
  /\ ScanOut = <<CitResolvedLinked, HeaderLine, CitResolved>>

\* the PAGE line of an entry is returned with the start page of the label
C22_PageLineRewritten ==
  /\ pc = "linked"
  /\ ScanIn = <<HeaderLine, ArtResolved, PageLine>>
  /\ ScanOut = <<HeaderLine, ArtResolved, PageLineLinked(118)>>

\* the hint on an ARTICLE line is returned with the page number of the model
C22_HintOnArticleLineKept ==
  /\ pc = "linked"
  /\ KEY_INDEX = LoadedIndex
  /\ ScanIn = <<HeaderLine, ArtHinted>>
  /\ ScanOut = ScanIn

\* -------------------------------------------------- claims on findBestPageFromQuote
QuoteNorm == NormPage(rawQuote)
HoldsPhrase(k) == Includes(NormPage(quotePages[k]), QuoteNorm)
\* every token of the quote stands on page k between spaces
HoldsEveryToken(k) ==
  \A w \in Range(SelectSeq(SplitSpaces(QuoteNorm), IsScoreToken)) :
    Includes(NormPage(quotePages[k]), <<" ">> \o w \o <<" ">>)

\* C23: when some page holds the normalized quote as a substring, the page returned
\* is one that holds it
C23_ExactSubstringWins ==
  pc = "found" /\ (\E k \in 1..Len(quotePages) : HoldsPhrase(k)) =>
    bestPage.page # 0 /\ HoldsPhrase(bestPage.page)

\* when a page holds the quote and no earlier page holds every token, the first
\* page that holds the quote is returned
C23_ExactWinsUnlessTokenPageEarlier ==
  pc = "found" =>
    \A k \in 1..Len(quotePages) :
      HoldsPhrase(k) /\ (\A j \in 1..(k - 1) : ~HoldsPhrase(j) /\ ~HoldsEveryToken(j)) =>
        bestPage.page = k

\* page 1 holds every token of the quote and not the phrase, page 2 holds the
\* phrase, and page 1 is returned with the score 1.0
C23_TokenPageBeatsPhrasePage ==
  /\ pc = "found"
  /\ Len(quotePages) >= 2
  /\ HoldsEveryToken(1) /\ ~HoldsPhrase(1)
  /\ HoldsPhrase(2)
  /\ bestPage.page = 1
  /\ IsOne(bestPage.score)

\* ------------------------------------------------- detector fallback (C24)
VerifyQuotes == PulledQuotes(TailOf(verifyAnswer))
NoQuotePage == QuoteResults(verifyPages, VerifyQuotes) = <<>>
\* the detector chosen for the quotes, and the pages one of its patterns matches
ChosenDetector == bestDetectorForQuotes(IF Len(VerifyQuotes) > 0 THEN VerifyQuotes ELSE <<verifyAnswer>>).val
DetectorPages == SelectSeq(Arr([i \in 1..Len(verifyPages) |-> i]),
                           LAMBDA i : MatchesDetector(ChosenDetector, verifyPages[i]))
ResultPages == Arr([k \in 1..Len(verifyOut.results) |-> verifyOut.results[k].page])

\* C24: when no quote yields a page and a page matches a pattern of the detector
\* chosen for the quotes, the call lists the first two such pages and cites the
\* first; it returns the answer unchanged only when no page matches the detector
C24_DetectorFallbackEmits ==
  pc = "returned" /\ NoQuotePage =>
    /\ DetectorPages # <<>> =>
         /\ verifyOut.changed
         /\ ResultPages = Slice(DetectorPages, 0, 2)
         /\ MatchStart(Lit(<<"c","i","t","a","t","i","o","n",":">>) \o <<>>, verifyOut.text) >= 0
    /\ ~verifyOut.changed => DetectorPages = <<>>

\* what the code does: without a quote page the answer comes back as given
C24_NoQuotePageUnchanged ==
  pc = "returned" /\ NoQuotePage =>
    /\ ~verifyOut.changed
    /\ verifyOut.results = <<>>
    /\ verifyOut.text = verifyAnswer

\* a page matches the chosen detector, no quote found a page, and the answer is
\* returned unchanged
C24_DetectorPageIgnored ==
  /\ pc = "returned"
  /\ NoQuotePage
  /\ DetectorPages # <<>>
  /\ ~verifyOut.changed
\* ------------------------------------------------- the polling loop (C25)
PollSafe ==
  /\ tries <= PollCap
  /\ messagesRead => runStatus = "completed"
  /\ attachCalled => runStatus = "completed"
  /\ pc = "responded" /\ ~threw /\ runStatus # "completed" =>
       /\ pollRes = [code |-> 200, result |-> TimedOutText]
       /\ ~messagesRead
       /\ ~attachCalled

\* C25: the handler makes at most 40 status polls and then responds; it reads the
\* messages and calls attachVerification only when the status last observed is
\* completed, and for every other status it responds with the timed-out text
C25_PollingTerminates == [](PollSafe) /\ <>(pc = "responded")

\* the run is still in progress after the fortieth poll and the handler has
\* responded with the timed-out text
C25_FortyPollsTimedOut ==
  /\ pc = "responded"
  /\ tries = PollCap
  /\ runStatus = "in_progress"
  /\ pollRes.result = TimedOutText
  /\ ~attachCalled
\* ------------------------------------------------- the chat widget (C27)
WidgetSafe ==
  /\ isTyping = (Outstanding # {})
  /\ Cardinality(Outstanding) <= 1
  /\ isTyping => shownTyping
  /\ lastEvent = "accepted" => Cardinality(Outstanding) = 1

\* C27: isTyping is true exactly while a call of submit is outstanding; the handlers
\* ignore a submission while it is true, so at most one request is in flight; every
\* request ends, whatever its outcome, and isTyping is false again
C27_TypingWhileOutstanding == [](WidgetSafe) /\ (isTyping ~> ~isTyping)

\* a request ended, the widget rendered, and the next submission was
\* accepted
C27_NextSubmissionAccepted ==
  /\ Len(calls) = 2
  /\ calls[1] = "done" /\ calls[2] = "fetch"
  /\ messages = <<"user", "user">>
  /\ lastEvent = "accepted"
  /\ isTyping
\* ------------------------------------------------- the linker applied twice (C28)
\* the number of anchors in s
AnchorCount(s) == Cardinality({p \in 0..(Len(s) - 1) : MatchAt(s, p, <<"<","a"," ","h","r","e","f","=">>)})

\* C28: linkifyCitations applied to its own output returns it unchanged; a line that
\* carries its anchor receives no second one
C28_SecondPassUnchanged ==
  pc = "linked" /\ linkPasses = 2 => relinked = firstLinked

\* the Citation line the first pass linked carries two anchors after the second
C28_SecondAnchorAdded ==
  /\ pc = "linked" /\ linkPasses = 2
  /\ firstLinked = <<"C","B","A"," ","(","2","0","2","2","ENDASH","2","0","2","6",")",","," ","A","r","t","i","c","l","e"," ","V","I","(","E",")","(","1",")","(","b",")",";"," ">> \o makePdfLink(25)
  /\ relinked = firstLinked \o AnchorTo(25)
  /\ AnchorCount(relinked) = 2
\* ------------------------------------------------- attachVerification applied twice (C29)
\* the offsets of the lines of s that open with Citation:, and of its Source text headers
CitationLinesOf(s) ==
  {p \in 0..(Len(s) - 1) : (p = 0 \/ s[p] = "\n") /\ MatchAt(s, p, <<"C","i","t","a","t","i","o","n",":">>)}
SourceHeadersOf(s) == {p \in 0..(Len(s) - 1) : MatchAt(s, p, <<"EMDASH","EMDASH"," ","S","o","u","r","c","e"," ","t","e","x","t"," ","EMDASH","EMDASH">>)}

\* C29: the text attachVerification returns for its own output holds one Citation
\* line and one Source text block
C29_OneCitationOneSourceBlock ==
  pc = "returned" /\ applied = 2 /\ verifyOut.changed =>
    /\ Cardinality(CitationLinesOf(verifyOut.text)) = 1
    /\ Cardinality(SourceHeadersOf(verifyOut.text)) = 1

\* the same of attachVerification of part_007, which cuts the answer at its Citation
\* line and writes both blocks anew
C29_RerunReplacesBlocks ==
  pc = "returned" /\ pass = 2 /\ result # NoResult =>
    /\ Cardinality(CitationLinesOf(result.text)) = 1
    /\ Cardinality(SourceHeadersOf(result.text)) = 1

\* the second call was given a text with one Source text block and returned one
\* with two
C29_SecondSourceBlock ==
  /\ pc = "returned" /\ applied = 2
  /\ Cardinality(SourceHeadersOf(verifyAnswer)) = 1
  /\ Cardinality(SourceHeadersOf(verifyOut.text)) = 2
  /\ Cardinality(CitationLinesOf(verifyOut.text)) = 1
\* ------------------------------------------------- claims on PAGES_CACHE
\* the calls whose fetch got a response that was not ok, and those that found the
\* cache set
NotOkCalls == {r \in PageRequests : jsonReq[r].fetched /\ jsonReq[r].pc = "returned" /\ ~jsonReq[r].ok}
WarmCalls == {r \in PageRequests : jsonReq[r].atEntry # Null}

\* C30: a call whose fetch is answered not ok returns the empty list and assigns
\* nothing, so PAGES_CACHE stays unset until a body has been read and every call
\* that finds it unset fetches; once a body was read PAGES_CACHE holds it and holds
\* nothing else afterwards, and a call that finds it set returns it without fetching
C30_FailedFetchNotCached ==
  pc = "serving" =>
    /\ \A r \in NotOkCalls : jsonReq[r].returned = <<>> /\ jsonReq[r].atEntry = Null
    /\ (PAGES_CACHE = Null) = (assigned = <<>>)
    /\ \A k \in 1..Len(assigned) : assigned[k] = pagesFile /\ PAGES_CACHE = assigned[k]
    /\ \A r \in PageRequests :
         /\ jsonReq[r].pc \in {"json", "thrown"} \/ jsonReq[r].fetched => jsonReq[r].atEntry = Null
         /\ jsonReq[r].pc = "returned" /\ ~jsonReq[r].fetched =>
              /\ jsonReq[r].atEntry # Null
              /\ jsonReq[r].returned = jsonReq[r].atEntry
              /\ jsonReq[r].returned = PAGES_CACHE
         /\ jsonReq[r].pc = "returned" /\ jsonReq[r].ok => jsonReq[r].returned = pagesFile
    /\ \A r \in WarmCalls : ~jsonReq[r].fetched /\ assigned # <<>>

\* one call was answered not ok and returned the empty list, the next fetched again
\* and read a body of two pages, and the third returned the cache without fetching
C30_FailedThenFetchedThenCached ==
  /\ pc = "serving"
  /\ Len(pagesFile) = 2
  /\ \E a, b, c \in PageRequests :
       /\ a \in NotOkCalls /\ jsonReq[a].returned = <<>>
       /\ jsonReq[b].pc = "returned" /\ jsonReq[b].fetched /\ jsonReq[b].ok
       /\ jsonReq[c].pc = "returned" /\ ~jsonReq[c].fetched /\ jsonReq[c].returned = pagesFile
  /\ assigned = <<pagesFile>>
====
